---- MODULE Spec2Model ----
(***************************************************************************)
(* The pricing calculators of diveops (operations/pricing/calculators.py)  *)
(* and the HTTP client of the Rust pricing service they delegate to        *)
(* (operations/pricing/rust_client.py), as a state machine: one calculator *)
(* call at a time goes idle -> rust (when USE_RUST_PRICING) -> python ->    *)
(* returned.                                                               *)
(*                                                                         *)
(* A Decimal is the integer number of units of 10^-Digits it holds, so     *)
(* 0.01 is Cent units. Python lists are 0-based; a list is a sequence      *)
(* here, and list index i is sequence index i + 1.                         *)
(***************************************************************************)
EXTENDS Integers, Sequences, FiniteSets

(* ------------------------------ bounds -------------------------------- *)

\* Decimal places the model carries (decimal's context carries 28 digits).
Digits == 5
\* round_money is called with places in 0..MaxPlaces.
MaxPlaces == 3
\* round_money inputs reach MaxHalfSteps half-units either side of zero.
MaxHalfSteps == 11
\* shared_total reaches MaxCents cents either side of zero.
MaxCents == 30
\* diver_count and fills_count reach MaxCount (and start at -1).
MaxCount == 7
\* The clock and the validity windows run over 0..MaxTime.
MaxTime == 1
\* The totals are taken over at most MaxLines pricing lines and MaxRentals
\* equipment rentals.
MaxLines == 2
MaxRentals == 1

(* ----------------------------- arithmetic ----------------------------- *)

RECURSIVE Pow10(_)
Pow10(n) == IF n <= 0 THEN 1 ELSE 10 * Pow10(n - 1)

\* The value of one unit in the last of `places` decimal places.
Unit(places) == Pow10(Digits - places)

\* Decimal("0.01")
Cent == Unit(2)

Abs(x) == IF x < 0 THEN -x ELSE x

Min(a, b) == IF a <= b THEN a ELSE b

\* ROUND_HALF_EVEN of n / d to an integer, d > 0.
RoundHalfUp(n, d) ==
    LET q == n \div d
        r == n % d
    IN  IF 2 * r < d THEN q ELSE q + 1

RoundHalfEven(n, d) ==
    LET q == n \div d
        r == n % d
    IN  IF 2 * r < d THEN q
        ELSE IF 2 * r > d THEN q + 1
        ELSE IF q % 2 = 0 THEN q ELSE q + 1

\* Decimal / int: the quotient, rounded half-even to the context's precision.
DecimalDivide(a, n) == RoundHalfEven(a, n)

\* int(x / y) for Decimals: the exact quotient truncated toward zero, y > 0.
IntOfQuotient(x, y) == IF x >= 0 THEN x \div y ELSE -((-x) \div y)

\* round_money without the quantize: the amount as it came.
round_money_unquantized(amount, places) ==
    amount

\* amount.quantize(Decimal("0." + "0" * places), rounding=ROUND_HALF_EVEN)
round_money(amount, places) ==
    RoundHalfEven(amount, Unit(places)) * Unit(places)

RECURSIVE SumSeq(_)
SumSeq(s) == IF s = <<>> THEN 0 ELSE Head(s) + SumSeq(Tail(s))

\* Python's None, and an exception of class `error` being raised.
None == [kind |-> "None"]

Raise(error) == [kind |-> "raise", error |-> error]

(* ------------------------ allocate_shared_costs ----------------------- *)

\* for i in range(min(adjustments_needed, diver_count)): amounts[i] += increment
DistributeShort(per_diver, diver_count, adjustments_needed, increment) ==
    [i \in 1..diver_count |->
        IF i <= Min(adjustments_needed - 1, diver_count)
        THEN per_diver + increment ELSE per_diver]

DistributeLast(per_diver, diver_count, adjustments_needed, increment) ==
    [i \in 1..diver_count |->
        IF i > diver_count - Min(adjustments_needed, diver_count)
        THEN per_diver + increment ELSE per_diver]

Distribute(per_diver, diver_count, adjustments_needed, increment) ==
    [i \in 1..diver_count |->
        IF i <= Min(adjustments_needed, diver_count)
        THEN per_diver + increment ELSE per_diver]

\* Lines 460-480 with per_diver rounded to one decimal place.
AllocateAmongDiversToTenths(shared_total, diver_count) ==
         LET per_diver == round_money(DecimalDivide(shared_total, diver_count), 1)
             allocated == per_diver * diver_count
             remainder == shared_total - allocated
             increment == IF remainder > 0 THEN Cent ELSE -Cent
             adjustments_needed == Abs(IntOfQuotient(remainder, Cent))
         IN  [kind |-> "return",
              per_diver |-> per_diver,
              amounts |->
                  IF remainder # 0
                  THEN Distribute(per_diver, diver_count, adjustments_needed, increment)
                  ELSE [i \in 1..diver_count |-> per_diver]]

\* Lines 460-480: the split among diver_count > 0 divers.
AllocateAmongDivers(shared_total, diver_count) ==
         LET per_diver == round_money(DecimalDivide(shared_total, diver_count), 2)
             allocated == per_diver * diver_count
             remainder == shared_total - allocated
             increment == IF remainder > 0 THEN Cent ELSE -Cent
             adjustments_needed == Abs(IntOfQuotient(remainder, Cent))
         IN  [kind |-> "return",
              per_diver |-> per_diver,
              amounts |->
                  IF remainder # 0
                  THEN Distribute(per_diver, diver_count, adjustments_needed, increment)
                  ELSE [i \in 1..diver_count |-> per_diver]]

\* The local body of allocate_shared_costs (after the delegation block).
allocate_shared_costs_strict(shared_total, diver_count) ==
    IF diver_count <= 0
    THEN Raise("ConfigurationError")
    ELSE AllocateAmongDivers(shared_total, diver_count)

allocate_shared_costs_python(shared_total, diver_count) ==
    IF diver_count <= 0
    THEN [kind |-> "return", per_diver |-> 0, amounts |-> <<>>]
    ELSE AllocateAmongDivers(shared_total, diver_count)

(* ------------------------- calculate_totals --------------------------- *)

\* for line in lines: the sum of line[field] over the lines that are shared
\* (allocation == "shared") or over all the others.
RECURSIVE LineSum(_, _, _)
LineSum(lines, shared, field) ==
    IF lines = <<>> THEN 0
    ELSE (IF (Head(lines).allocation = "shared") = shared THEN Head(lines)[field] ELSE 0)
         + LineSum(Tail(lines), shared, field)

\* A rental counted once whatever its quantity.
RentalAmountOfOne(rental, field) ==
    rental[field]

\* rental[field] * rental["quantity"]
RentalAmount(rental, field) ==
    rental[field] * rental.quantity

\* for rental in rentals: the sum of the rentals' amounts.
RECURSIVE RentalSum(_, _)
RentalSum(rentals, field) ==
    IF rentals = <<>> THEN 0
    ELSE RentalAmount(Head(rentals), field) + RentalSum(Tail(rentals), field)

\* The shared amount per diver cut down to whole cents.
SharedPerDiverTruncated(shared, diver_count) ==
    IF diver_count > 0
    THEN (DecimalDivide(shared, diver_count) \div Cent) * Cent
    ELSE 0

\* round_money(shared / diver_count) if diver_count > 0 else Decimal("0")
SharedPerDiver(shared, diver_count) ==
    IF diver_count > 0
    THEN round_money(DecimalDivide(shared, diver_count), 2)
    ELSE 0

\* benchmark_pricing.py 162-189: the totals of pricing lines and equipment
\* rentals; the dict it returns and, under locals, its accumulators.
calculate_totals_python(lines, diver_count, rentals) ==
    LET shared_cost == LineSum(lines, TRUE, "shop_cost_amount")
        shared_charge == LineSum(lines, TRUE, "customer_charge_amount")
        per_diver_cost == LineSum(lines, FALSE, "shop_cost_amount")
                          + RentalSum(rentals, "unit_cost_amount")
        per_diver_charge == LineSum(lines, FALSE, "customer_charge_amount")
                            + RentalSum(rentals, "unit_charge_amount")
        shared_cost_per_diver == SharedPerDiver(shared_cost, diver_count)
        shared_charge_per_diver == SharedPerDiver(shared_charge, diver_count)
    IN  [kind |-> "return",
         total_cost_per_diver |-> shared_cost_per_diver + per_diver_cost,
         total_charge_per_diver |-> shared_charge_per_diver + per_diver_charge,
         locals |-> [shared_cost |-> shared_cost,
                     shared_charge |-> shared_charge,
                     per_diver_cost |-> per_diver_cost,
                     per_diver_charge |-> per_diver_charge,
                     shared_cost_per_diver |-> shared_cost_per_diver,
                     shared_charge_per_diver |-> shared_charge_per_diver]]

(* -------------------------- agreement terms --------------------------- *)

\* A value of the terms JSON under a key: the key is absent, or holds null, a
\* string that is no number, or a number.
Absent == [t |-> "absent"]
Null == [t |-> "null"]
Text == [t |-> "text"]
Num(v) == [t |-> "num", v |-> v]

\* Decimal(str(d.get(key, "0"))): str(None) and a non-numeric string make
\* Decimal raise decimal.InvalidOperation, an ArithmeticError.
ParseDecimal(field) ==
    CASE field.t = "absent" -> [kind |-> "return", value |-> 0]
      [] field.t = "num" -> [kind |-> "return", value |-> field.v]
      [] OTHER -> Raise("InvalidOperation")

\* int(boat_tier.get("included_divers", 4))
ParseIncludedDivers(field) ==
    CASE field.t = "absent" -> [kind |-> "return", value |-> 4]
      [] field.t = "num" -> [kind |-> "return", value |-> field.v]
      [] field.t = "null" -> Raise("TypeError")
      [] OTHER -> Raise("ValueError")

\* An exception leaving `try: ... except (ValueError, TypeError)` of the parse
\* blocks: those two become ConfigurationError, any other passes through.
ExceptValueOrTypeError(raised) ==
    IF raised.error \in {"ValueError", "TypeError"}
    THEN Raise("ConfigurationError")
    ELSE raised

(* ------------------------- calculate_boat_cost ------------------------ *)

\* Agreement.objects...as_of(check_time): the rows in force at check_time.
as_of_filter(rows, check_time) ==
    {a \in rows : /\ a.valid_from <= check_time
                  /\ (a.valid_to_null \/ check_time < a.valid_to)}

\* .first(): the row with the lowest pk, or None.
first(rows) ==
    IF rows = {} THEN None
    ELSE CHOOSE a \in rows : \A b \in rows : a.pk <= b.pk

\* check_time = as_of or timezone.now()
CheckTime(as_of, clock) == IF as_of.given THEN as_of.t ELSE clock

\* Lines 126-135: the vendor agreement of this site in force at check_time.
FindBoatAgreementAnySite(rows, dive_site, check_time) ==
    first(as_of_filter({a \in rows : a.scope_type = "vendor_pricing"}, check_time))

FindBoatAgreement(rows, dive_site, check_time) ==
    first(as_of_filter({a \in rows : /\ a.scope_type = "vendor_pricing"
                                     /\ a.scope_ref = dive_site},
                       check_time))

MissingVendorAgreementError(scope_type, model, pk) ==
    [kind |-> "raise", error |-> "MissingVendorAgreementError",
     scope_type |-> scope_type, scope_ref |-> [model |-> model, pk |-> pk]]

\* Lines 157-165: the tier structure, or what the parse raises.
ParseBoatTier(boat_tier) ==
    LET base_cost == ParseDecimal(boat_tier.base_cost)
        included_divers == ParseIncludedDivers(boat_tier.included_divers)
        overage_per_diver == ParseDecimal(boat_tier.overage_per_diver)
    IN  IF base_cost.kind = "raise" THEN ExceptValueOrTypeError(base_cost)
        ELSE IF included_divers.kind = "raise" THEN ExceptValueOrTypeError(included_divers)
        ELSE IF overage_per_diver.kind = "raise" THEN ExceptValueOrTypeError(overage_per_diver)
        ELSE [kind |-> "return",
              base_cost |-> base_cost.value,
              included_divers |-> included_divers.value,
              overage_per_diver |-> overage_per_diver.value]

\* Lines 167-173: the total and the number of divers above the included ones.
BoatTotalUnclamped(base_cost, included_divers, overage_per_diver, diver_count) ==
    [overage_count |-> diver_count - included_divers,
     total_amount |-> base_cost + (diver_count - included_divers) * overage_per_diver]

BoatTotal(base_cost, included_divers, overage_per_diver, diver_count) ==
    IF diver_count <= included_divers
    THEN [overage_count |-> 0, total_amount |-> base_cost]
    ELSE [overage_count |-> diver_count - included_divers,
          total_amount |-> base_cost + (diver_count - included_divers) * overage_per_diver]

\* Line 176: round_money(total_amount / diver_count)
PerDiverShareRoundedDown(total_amount, diver_count) ==
    (DecimalDivide(total_amount, diver_count) \div Cent) * Cent

PerDiverShare(total_amount, diver_count) ==
    round_money(DecimalDivide(total_amount, diver_count), 2)

\* The local body of calculate_boat_cost looking the agreement up before it
\* checks diver_count.
calculate_boat_cost_lookup_first(rows, clock, dive_site, diver_count, as_of) ==
    LET agreement == FindBoatAgreement(rows, dive_site, CheckTime(as_of, clock))
    IN  IF agreement = None
        THEN MissingVendorAgreementError("vendor_pricing", "DiveSite", dive_site)
        ELSE IF diver_count <= 0
        THEN Raise("ConfigurationError")
        ELSE
        LET boat_tier == agreement.terms.boat_charter
        IN  IF boat_tier.t # "dict"
            THEN Raise("ConfigurationError")
            ELSE
            LET tier == ParseBoatTier(boat_tier)
            IN  IF tier.kind = "raise" THEN tier
                ELSE
                LET tot == BoatTotal(tier.base_cost, tier.included_divers,
                                     tier.overage_per_diver, diver_count)
                IN  [kind |-> "return",
                     total |-> tot.total_amount,
                     per_diver |-> PerDiverShare(tot.total_amount, diver_count),
                     base_cost |-> tier.base_cost,
                     overage_count |-> tot.overage_count,
                     overage_per_diver |-> tier.overage_per_diver,
                     included_divers |-> tier.included_divers,
                     diver_count |-> diver_count,
                     agreement_id |-> agreement.pk]

\* The local body of calculate_boat_cost (lines 120-187).
calculate_boat_cost_python(rows, clock, dive_site, diver_count, as_of) ==
    IF diver_count <= 0
    THEN Raise("ConfigurationError")
    ELSE
    LET agreement == FindBoatAgreement(rows, dive_site, CheckTime(as_of, clock))
    IN  IF agreement = None
        THEN MissingVendorAgreementError("vendor_pricing", "DiveSite", dive_site)
        ELSE
        LET boat_tier == agreement.terms.boat_charter
        IN  IF boat_tier.t # "dict"
            THEN Raise("ConfigurationError")
            ELSE
            LET tier == ParseBoatTier(boat_tier)
            IN  IF tier.kind = "raise" THEN tier
                ELSE
                LET tot == BoatTotal(tier.base_cost, tier.included_divers,
                                     tier.overage_per_diver, diver_count)
                IN  [kind |-> "return",
                     total |-> tot.total_amount,
                     per_diver |-> PerDiverShare(tot.total_amount, diver_count),
                     base_cost |-> tier.base_cost,
                     overage_count |-> tot.overage_count,
                     overage_per_diver |-> tier.overage_per_diver,
                     included_divers |-> tier.included_divers,
                     diver_count |-> diver_count,
                     agreement_id |-> agreement.pk]

(* ------------------------- calculate_gas_fills ------------------------ *)

\* str.lower() on the gas types that occur.
lower(str) ==
    CASE str \in {"air", "AIR", "Air"} -> "air"
      [] str \in {"ean32", "EAN32"} -> "ean32"
      [] OTHER -> str

\* Lines 256-265: the gas vendor agreement of this shop in force at check_time.
FindGasAgreement(rows, dive_shop, check_time) ==
    first(as_of_filter({a \in rows : /\ a.scope_type = "gas_vendor_pricing"
                                     /\ a.party_a = dive_shop},
                       check_time))

\* Lines 274-275: terms.get("gas_fills", {}).get(gas_type.lower())
GasPricing(terms, gas_type) ==
    IF terms.gas_fills.t # "dict" THEN None
    ELSE IF lower(gas_type) \in DOMAIN terms.gas_fills.entries
         THEN terms.gas_fills.entries[lower(gas_type)]
         ELSE None

\* Lines 298-300: the totals are plain products.
GasTotalRounded(per_fill, fills_count) == round_money(per_fill * fills_count, 2)

GasTotal(per_fill, fills_count) == per_fill * fills_count

\* Lines 292-296: the override when it is not None, else the agreement's charge.
ChargePerFillTruthy(customer_charge_amount, gas_pricing) ==
    IF customer_charge_amount.given /\ customer_charge_amount.v # 0
    THEN [kind |-> "return", value |-> customer_charge_amount.v]
    ELSE ParseDecimal(gas_pricing.charge)

ChargePerFill(customer_charge_amount, gas_pricing) ==
    IF customer_charge_amount.given
    THEN [kind |-> "return", value |-> customer_charge_amount.v]
    ELSE ParseDecimal(gas_pricing.charge)

\* The local body of calculate_gas_fills (lines 250-311).
calculate_gas_fills_python(rows, clock, dive_shop, gas_type, fills_count, customer_charge_amount, as_of) ==
    IF fills_count <= 0
    THEN Raise("ConfigurationError")
    ELSE
    LET agreement == FindGasAgreement(rows, dive_shop, CheckTime(as_of, clock))
    IN  IF agreement = None
        THEN MissingVendorAgreementError("gas_vendor_pricing", "Organization", dive_shop)
        ELSE
        LET gas_pricing == GasPricing(agreement.terms, gas_type)
        IN  IF gas_pricing = None \/ gas_pricing.t # "dict"
            THEN Raise("ConfigurationError")
            ELSE
            LET cost == ParseDecimal(gas_pricing.cost)
                charge == ChargePerFill(customer_charge_amount, gas_pricing)
            IN  IF cost.kind = "raise" THEN ExceptValueOrTypeError(cost)
                ELSE IF charge.kind = "raise" THEN charge
                ELSE [kind |-> "return",
                      cost_per_fill |-> cost.value,
                      charge_per_fill |-> charge.value,
                      total_cost |-> GasTotal(cost.value, fills_count),
                      total_charge |-> GasTotal(charge.value, fills_count),
                      fills_count |-> fills_count,
                      gas_type |-> gas_type,
                      agreement_id |-> agreement.pk,
                      price_rule_id |-> None]

(* ---------------------- resolve_component_pricing --------------------- *)

\* str(x) of an identifier or a Decimal, and datetime.isoformat().
Str(x) == [str |-> x]

isoformat(t) == [iso |-> t]

\* A foreign key of a Price row that is NULL.
NoRef == 0

\* Price.objects...current(as_of=check_time): the rows in force at check_time.
current(rows, check_time) ==
    {p \in rows : /\ p.valid_from <= check_time
                  /\ (p.valid_to_null \/ check_time < p.valid_to)}

\* .global_scope(): the rows bound to no organization, party or agreement.
global_scope(rows) ==
    {p \in rows : p.organization = NoRef /\ p.party = NoRef /\ p.agreement = NoRef}

\* .order_by("-priority").first(): the order without its second key.
first_by_priority_only(rows) ==
    {p \in rows : \A q \in rows : p.priority >= q.priority}

\* .order_by("-priority", "-valid_from").first(): the rows the database may
\* hand back, none when there is no row and several when the order ties.
first_by_priority(rows) ==
    {p \in rows : \A q \in rows :
        \/ p.priority > q.priority
        \/ p.priority = q.priority /\ p.valid_from >= q.valid_from}

\* Lines 382-399: the candidates of the first tier that has any, asking the
\* organization before the party.
ResolveTiersOrganizationFirst(base_qs, dive_shop, party, agreement) ==
    LET tier_agreement ==
            IF agreement.given
            THEN first_by_priority({p \in base_qs : p.agreement = agreement.pk})
            ELSE {}
        tier_organization ==
            IF tier_agreement = {} /\ dive_shop.given
            THEN first_by_priority({p \in base_qs : /\ p.organization = dive_shop.pk
                                                    /\ p.party = NoRef
                                                    /\ p.agreement = NoRef})
            ELSE {}
        tier_party ==
            IF tier_agreement = {} /\ tier_organization = {} /\ party.given
            THEN first_by_priority({p \in base_qs : /\ p.party = party.pk
                                                    /\ p.agreement = NoRef})
            ELSE {}
        tier_global ==
            IF tier_agreement = {} /\ tier_party = {} /\ tier_organization = {}
            THEN first_by_priority(global_scope(base_qs))
            ELSE {}
    IN  tier_agreement \cup tier_party \cup tier_organization \cup tier_global

\* Lines 382-399 with a party tier that does not ask for agreement__isnull.
ResolveTiersPartyOfAnyAgreement(base_qs, dive_shop, party, agreement) ==
    LET tier_agreement ==
            IF agreement.given
            THEN first_by_priority({p \in base_qs : p.agreement = agreement.pk})
            ELSE {}
        tier_party ==
            IF tier_agreement = {} /\ party.given
            THEN first_by_priority({p \in base_qs : p.party = party.pk})
            ELSE {}
        tier_organization ==
            IF tier_agreement = {} /\ tier_party = {} /\ dive_shop.given
            THEN first_by_priority({p \in base_qs : /\ p.organization = dive_shop.pk
                                                    /\ p.party = NoRef
                                                    /\ p.agreement = NoRef})
            ELSE {}
        tier_global ==
            IF tier_agreement = {} /\ tier_party = {} /\ tier_organization = {}
            THEN first_by_priority(global_scope(base_qs))
            ELSE {}
    IN  tier_agreement \cup tier_party \cup tier_organization \cup tier_global

\* Lines 382-399: the candidates of the first tier that has any.
ResolveTiers(base_qs, dive_shop, party, agreement) ==
    LET tier_agreement ==
            IF agreement.given
            THEN first_by_priority({p \in base_qs : p.agreement = agreement.pk})
            ELSE {}
        tier_party ==
            IF tier_agreement = {} /\ party.given
            THEN first_by_priority({p \in base_qs : /\ p.party = party.pk
                                                    /\ p.agreement = NoRef})
            ELSE {}
        tier_organization ==
            IF tier_agreement = {} /\ tier_party = {} /\ dive_shop.given
            THEN first_by_priority({p \in base_qs : /\ p.organization = dive_shop.pk
                                                    /\ p.party = NoRef
                                                    /\ p.agreement = NoRef})
            ELSE {}
        tier_global ==
            IF tier_agreement = {} /\ tier_party = {} /\ tier_organization = {}
            THEN first_by_priority(global_scope(base_qs))
            ELSE {}
    IN  tier_agreement \cup tier_party \cup tier_organization \cup tier_global

display_name(catalog_item) == [display_name |-> catalog_item]

MissingPriceError(catalog_item) ==
    [kind |-> "raise", error |-> "MissingPriceError",
     catalog_item_id |-> Str(catalog_item), context |-> display_name(catalog_item)]

\* Lines 407-414: the dict made of one Price row.
PriceResult(price) ==
    [kind |-> "return",
     charge_amount |-> price.amount,
     charge_currency |-> price.currency,
     cost_amount |-> price.cost_amount,
     cost_currency |-> IF price.cost_currency = "" THEN price.currency
                       ELSE price.cost_currency,
     price_rule_id |-> Str(price.pk),
     has_cost |-> price.has_cost]

\* Lines 401-405 without the check: a price of zero when no tier has a match.
ResolveOutcomesZeroPrice(candidates, catalog_item) ==
    IF candidates = {}
    THEN {[kind |-> "return", charge_amount |-> 0, charge_currency |-> "MXN",
           cost_amount |-> Null, cost_currency |-> "MXN",
           price_rule_id |-> Str(NoRef), has_cost |-> FALSE]}
    ELSE {PriceResult(price) : price \in candidates}

\* Lines 401-414: MissingPriceError when no tier has a match.
ResolveOutcomes(candidates, catalog_item) ==
    IF candidates = {}
    THEN {MissingPriceError(catalog_item)}
    ELSE {PriceResult(price) : price \in candidates}

\* The local body of resolve_component_pricing (lines 372-414): what it may
\* return or raise.
resolve_component_pricing_python(rows, clock, catalog_item, dive_shop, party, agreement, as_of) ==
    LET check_time == CheckTime(as_of, clock)
        base_qs == current({p \in rows : p.catalog_item = catalog_item}, check_time)
    IN  ResolveOutcomes(ResolveTiers(base_qs, dive_shop, party, agreement), catalog_item)

(* ------------------------------- state -------------------------------- *)

VARIABLES
    USE_RUST_PRICING,   \* settings.USE_RUST_PRICING
    agreements,         \* the rows of django_agreements' Agreement table
    prices,             \* the rows of diveops.pricing's Price table
    now,                \* timezone.now()
    pc,                 \* "idle", "rust", "python" or "returned"
    call,               \* the calculator being called and its arguments
    result,             \* what the call returned or raised
    requests,           \* HTTP requests this call has sent to the Rust service
    python_runs,        \* times this call has run the local body
    rust_outcome,       \* what the rust_client function returned or raised
    sent,               \* the JSON payload of the last request this call has sent
    prev                \* an earlier, identical call and what it returned or raised

vars == <<USE_RUST_PRICING, agreements, prices, now, pc, call, result, requests,
          python_runs, rust_outcome, sent, prev>>

(* ----------------------------- rust_client ---------------------------- *)

\* What client.post() can come to: no response at all (httpx.RequestError: the
\* connection failed or timed out), or a response with a status and a body that
\* is a JSON object or is not JSON.
HttpExchanges(bodies) ==
    {[transport |-> "RequestError"]}
    \cup {[transport |-> "ok", status |-> 200, json |-> TRUE, data |-> d] : d \in bodies}
    \cup {[transport |-> "ok", status |-> 200, json |-> TRUE, data |-> [t |-> "empty"]]}
    \cup {[transport |-> "ok", status |-> s, json |-> TRUE, error_type |-> e] :
            s \in {404, 422},
            e \in {"missing_vendor_agreement", "missing_price",
                   "configuration_error", "invalid_input", "absent"}}
    \cup {[transport |-> "ok", status |-> s, json |-> FALSE] : s \in {200, 204, 502}}

\* RustPricingError(error_type=error_data.get("error_type", "unknown"), ...)
RustPricingError(error_type) ==
    [kind |-> "raise", error |-> "RustPricingError",
     error_type |-> IF error_type = "absent" THEN "unknown" ELSE error_type]

\* response.raise_for_status(): raises for a 4xx or 5xx status, else returns.
raise_for_status(response) ==
    IF response.status >= 400 THEN Raise("HTTPStatusError") ELSE None

_handle_response(response) ==
    IF response.status = 200
    THEN IF response.json
         THEN [kind |-> "return", data |-> response.data]
         ELSE Raise("JSONDecodeError")
    ELSE IF response.json
         THEN RustPricingError(response.error_type)
         ELSE LET r == raise_for_status(response)
              IN  IF r = None THEN [kind |-> "return", data |-> None] ELSE r

\* The shape every rust_client function has: post, _handle_response inside
\* `except httpx.RequestError`, then read the fields of data.
ClientCall(exchange) ==
    IF exchange.transport = "RequestError"
    THEN Raise("RustPricingUnavailable")
    ELSE LET h == _handle_response(exchange)
         IN  IF h.kind = "raise" THEN h
             ELSE IF h.data = None THEN Raise("TypeError")
             ELSE IF h.data.t = "empty" THEN Raise("KeyError")
             ELSE [kind |-> "return", value |-> h.data]

\* rust_client.allocate_shared_costs: the value is (per_diver, amounts).
rust_client_allocate_shared_costs(exchange) == ClientCall(exchange)

\* rust_client.calculate_boat_cost: the value is its BoatCostResult.
rust_client_calculate_boat_cost(exchange) == ClientCall(exchange)

\* A body the service may answer /boat-cost with.
BoatCostBodies ==
    {[t |-> "boat", total |-> 1800 * Cent, per_diver |-> 450 * Cent,
      base_cost |-> 1800 * Cent, overage_count |-> 0,
      overage_per_diver |-> 150 * Cent, included_divers |-> 4,
      diver_count |-> 4, agreement_id |-> 1]}

\* rust_client.calculate_gas_fills: the value is its GasFillResult.
rust_client_calculate_gas_fills(exchange) == ClientCall(exchange)

\* A body the service may answer /gas-fills with.
GasFillsBodies ==
    {[t |-> "gas", cost_per_fill |-> 5000 * Cent, charge_per_fill |-> 10000 * Cent,
      total_cost |-> 10000 * Cent, total_charge |-> 20000 * Cent,
      fills_count |-> 2, gas_type |-> "air", agreement_id |-> 1,
      price_rule_id |-> None]}

\* rust_client.resolve_component_pricing, lines 285-292: cost_amount is None
\* when the body has none.
rust_client_resolve_component_pricing(exchange) == ClientCall(exchange)

\* Bodies the service may answer /resolve with: a price with a cost and one
\* without.
ResolveBodies ==
    {[t |-> "resolve", charge_amount |-> 4000 * Cent, charge_currency |-> "MXN",
      cost_amount |-> Num(2500 * Cent), cost_currency |-> "MXN",
      price_rule_id |-> 9, has_cost |-> TRUE],
     [t |-> "resolve", charge_amount |-> 4000 * Cent, charge_currency |-> "MXN",
      cost_amount |-> Null, cost_currency |-> "MXN",
      price_rule_id |-> 9, has_cost |-> FALSE]}

\* Bodies the service may answer /allocate with.
AllocateBodies ==
    {[t |-> "allocate", per_diver |-> 33 * Cent,
      amounts |-> <<34 * Cent, 33 * Cent, 33 * Cent>>],
     [t |-> "allocate", per_diver |-> 0, amounts |-> <<>>]}

\* Bodies the service may answer /totals with: the benchmark's totals for 4
\* divers, and totals in another currency for none.
TotalsBodies ==
    {[t |-> "totals", shared_cost |-> 2300 * Cent, shared_charge |-> 2600 * Cent,
      per_diver_cost |-> 200 * Cent, per_diver_charge |-> 200 * Cent,
      shared_cost_per_diver |-> 575 * Cent, shared_charge_per_diver |-> 650 * Cent,
      total_cost_per_diver |-> 775 * Cent, total_charge_per_diver |-> 850 * Cent,
      margin_per_diver |-> 75 * Cent, diver_count |-> 4, currency |-> "MXN"],
     [t |-> "totals", shared_cost |-> 0, shared_charge |-> 0,
      per_diver_cost |-> 0, per_diver_charge |-> 0,
      shared_cost_per_diver |-> 0, shared_charge_per_diver |-> 0,
      total_cost_per_diver |-> 0, total_charge_per_diver |-> 0,
      margin_per_diver |-> 0, diver_count |-> 0, currency |-> "USD"]}

\* rust_client.calculate_totals, lines 362-382: the amounts and diver_count of
\* the body, and the currency of the call.
rust_client_calculate_totals(exchange, currency) ==
    LET c == ClientCall(exchange)
    IN  IF c.kind = "raise" THEN c
        ELSE [kind |-> "return",
              value |-> [c.value EXCEPT !.currency = currency]]

\* rust_client.calculate_totals, lines 355-360: equipment_rentals or [].
totals_payload(lines, diver_count, currency, equipment_rentals) ==
    [url |-> "/totals", lines |-> lines, diver_count |-> diver_count,
     currency |-> currency,
     equipment_rentals |-> IF equipment_rentals.given THEN equipment_rentals.v ELSE <<>>]

\* calculators.py: as_of_str = as_of.isoformat() if as_of else None, and
\* rust_client: if as_of: payload["as_of"] = as_of
as_of_payload(as_of) == IF as_of.given THEN isoformat(as_of.t) ELSE Absent

\* An optional object argument: `x.pk if x else None` in calculators.py, then
\* `if x_id: payload[...] = str(x_id)` in rust_client.
id_payload(ref) == IF ref.given THEN Str(ref.pk) ELSE Absent

\* rust_client.calculate_boat_cost, lines 156-161.
boat_cost_payload(dive_site_id, diver_count, as_of) ==
    [url |-> "/boat-cost", dive_site_id |-> Str(dive_site_id),
     diver_count |-> diver_count, as_of |-> as_of_payload(as_of)]

\* rust_client.calculate_gas_fills, lines 208-216: the override is sent when it
\* is not None.
gas_fills_payload(dive_shop_id, gas_type, fills_count, customer_charge_override, as_of) ==
    [url |-> "/gas-fills", dive_shop_id |-> Str(dive_shop_id), gas_type |-> gas_type,
     fills_count |-> fills_count,
     customer_charge_override |->
        IF customer_charge_override.given
        THEN Str(customer_charge_override.v) ELSE Absent,
     as_of |-> as_of_payload(as_of)]

\* rust_client.resolve_component_pricing, lines 266-276.
resolve_payload(catalog_item_id, dive_shop, party, agreement, as_of) ==
    [url |-> "/resolve", catalog_item_id |-> Str(catalog_item_id),
     dive_shop_id |-> id_payload(dive_shop), party_id |-> id_payload(party),
     agreement_id |-> id_payload(agreement), as_of |-> as_of_payload(as_of)]

\* rust_client.allocate_shared_costs posting its default currency.
allocate_payload_default_currency(shared_total, diver_count, currency) ==
    [url |-> "/allocate", shared_total |-> Str(shared_total),
     diver_count |-> diver_count, currency |-> "MXN"]

\* rust_client.allocate_shared_costs, lines 314-318.
allocate_payload(shared_total, diver_count, currency) ==
    [url |-> "/allocate", shared_total |-> Str(shared_total),
     diver_count |-> diver_count, currency |-> currency]

\* The payload the delegation block of the calculator called by `c` has posted.
Payload(c) ==
    CASE c.op = "calculate_boat_cost" ->
            boat_cost_payload(c.dive_site, c.diver_count, c.as_of)
      [] c.op = "calculate_gas_fills" ->
            gas_fills_payload(c.dive_shop, c.gas_type, c.fills_count,
                              c.customer_charge_amount, c.as_of)
      [] c.op = "resolve_component_pricing" ->
            resolve_payload(c.catalog_item, c.dive_shop, c.party, c.agreement, c.as_of)
      [] c.op = "allocate_shared_costs" ->
            allocate_payload(c.shared_total, c.diver_count, c.currency)
      [] c.op = "rust_client.calculate_totals" ->
            totals_payload(c.lines, c.diver_count, c.currency, c.equipment_rentals)

(* ------------------------------- inputs ------------------------------- *)

Places == 0..MaxPlaces

\* Every multiple of half a unit of every place, and its two neighbours.
RoundInputs ==
    {k * (Unit(p) \div 2) + e :
        p \in Places, k \in -MaxHalfSteps..MaxHalfSteps, e \in {-1, 0, 1}}

\* Whole cents, and amounts 0.001 and 0.005 above them.
SharedTotals ==
    {c * Cent + e : c \in -MaxCents..MaxCents, e \in {0, Unit(3), 5 * Unit(3)}}

DiverCounts == -1..MaxCount

\* No fills, one too few, one, two and many.
FillCounts == {-1, 0, 1, 2, MaxCount}

GasTypes == {"air", "AIR", "Air", "ean32", "trimix"}

\* customer_charge_amount=None, 0, 1.00 and 0.033.
ChargeOverrides ==
    {[given |-> FALSE, v |-> 0]}
    \cup {[given |-> TRUE, v |-> v] : v \in {0, 100 * Cent, 33 * Unit(3)}}

DiveShops == {1}

Currencies == {"MXN", "USD"}

CatalogItems == {1}

\* An optional object argument: None, or the object with primary key 1.
OptionalRefs == {[given |-> FALSE, pk |-> NoRef], [given |-> TRUE, pk |-> 1]}

Times == 0..MaxTime

\* as_of=None, or a point in time.
AsOfValues ==
    {[given |-> FALSE, t |-> 0]} \cup {[given |-> TRUE, t |-> t] : t \in Times}

DiveSites == {1, 2}

\* Sequences of at most n members of S.
RECURSIVE SeqsUpTo(_, _)
SeqsUpTo(S, n) ==
    IF n = 0 THEN {<<>>}
    ELSE LET shorter == SeqsUpTo(S, n - 1)
         IN  shorter \cup {Append(q, x) : q \in shorter, x \in S}

Line(allocation, shop_cost_amount, customer_charge_amount) ==
    [allocation |-> allocation, shop_cost_amount |-> shop_cost_amount,
     customer_charge_amount |-> customer_charge_amount]

Rental(unit_cost_amount, unit_charge_amount, quantity) ==
    [unit_cost_amount |-> unit_cost_amount, unit_charge_amount |-> unit_charge_amount,
     quantity |-> quantity]

\* The benchmark's three lines at a hundredth of their amounts, a shared line
\* whose quarter is half a cent, and a per-diver line.
LinePool ==
    {Line("shared", 1800 * Cent, 2000 * Cent),
     Line("per_diver", 100 * Cent, 0),
     Line("shared", 500 * Cent, 600 * Cent),
     Line("shared", 10 * Cent, 25 * Cent),
     Line("per_diver", 33 * Cent, 50 * Cent)}

\* The benchmark's rental at a hundredth of its amounts, and three of another.
RentalPool ==
    {Rental(50 * Cent, 100 * Cent, 2), Rental(25 * Cent, 40 * Cent, 3)}

LineLists == SeqsUpTo(LinePool, MaxLines)

RentalLists == SeqsUpTo(RentalPool, MaxRentals)

\* What the remote client is handed: no lines or the benchmark's first two;
\* equipment_rentals=None, [] or one rental.
ClientLineLists ==
    {<<>>, <<Line("shared", 1800 * Cent, 2000 * Cent), Line("per_diver", 100 * Cent, 0)>>}

ClientRentalLists ==
    {[given |-> FALSE, v |-> <<>>], [given |-> TRUE, v |-> <<>>],
     [given |-> TRUE, v |-> <<Rental(50 * Cent, 100 * Cent, 2)>>]}

\* The responses _handle_response may be handed.
Responses == {x \in HttpExchanges(TotalsBodies) : x.transport = "ok"}

\* Validity windows: always, from time 1 on, until time 1.
Always == [valid_from |-> 0, valid_to_null |-> TRUE, valid_to |-> 0]
FromOne == [valid_from |-> 1, valid_to_null |-> TRUE, valid_to |-> 0]
UntilOne == [valid_from |-> 0, valid_to_null |-> FALSE, valid_to |-> 1]

Agreement(pk, scope_type, scope_ref, party_a, window, terms) ==
    [pk |-> pk, scope_type |-> scope_type, scope_ref |-> scope_ref,
     party_a |-> party_a, valid_from |-> window.valid_from,
     valid_to_null |-> window.valid_to_null, valid_to |-> window.valid_to,
     terms |-> terms]

Tier(base_cost, included_divers, overage_per_diver) ==
    [t |-> "dict", base_cost |-> base_cost, included_divers |-> included_divers,
     overage_per_diver |-> overage_per_diver]

\* terms["boat_charter"]: well-formed tiers (18.00 or 10.01 base, 1.50 overage),
\* tiers with one field absent or malformed, one with two malformed, no
\* boat_charter and an empty one.
BoatCharters ==
    {Tier(Num(b), i, Num(150 * Cent)) :
        b \in {1800 * Cent, 1001 * Cent},
        i \in {Absent, Num(-1), Num(0), Num(2), Num(4)}}
    \cup {Tier(b, Num(4), Num(150 * Cent)) : b \in {Absent, Text}}
    \cup {Tier(Num(1800 * Cent), i, Num(150 * Cent)) : i \in {Null, Text}}
    \cup {Tier(Num(1800 * Cent), Num(4), o) : o \in {Absent, Text}}
    \cup {Tier(Text, Text, Num(150 * Cent))}
    \cup {[t |-> "absent"], [t |-> "empty"]}

BoatTerms(boat_charter) ==
    [boat_charter |-> boat_charter, gas_fills |-> [t |-> "absent"]]

GoodTier == Tier(Num(1800 * Cent), Num(4), Num(150 * Cent))

\* The Agreement table: empty; one agreement of site 1; an agreement of site 1
\* superseded at time 1; only another site's; only a gas vendor's.
BoatStores ==
    {{}}
    \cup {{Agreement(1, "vendor_pricing", 1, 0, w, BoatTerms(c))} :
            c \in BoatCharters, w \in {Always, FromOne}}
    \cup {{Agreement(1, "vendor_pricing", 1, 0, UntilOne, BoatTerms(GoodTier)),
           Agreement(2, "vendor_pricing", 1, 0, FromOne,
                     BoatTerms(Tier(Num(1001 * Cent), Num(2), Num(150 * Cent))))}}
    \cup {{Agreement(1, "vendor_pricing", 2, 0, Always, BoatTerms(GoodTier))}}
    \cup {{Agreement(1, "gas_vendor_pricing", 0, 1, Always, BoatTerms(GoodTier))}}

(* ------------------------------ actions ------------------------------- *)

\* A call entering the delegation block whatever the flag says.
EnterRemoteFirst(c) ==
    /\ call' = c
    /\ pc' = IF c.op # "round_money" THEN "rust" ELSE "python"
    /\ UNCHANGED <<USE_RUST_PRICING, agreements, prices, now, result, requests,
                   python_runs, rust_outcome, sent, prev>>

\* A call enters its function: the delegation block first when the flag is set.
Enter(c) ==
    /\ call' = c
    /\ pc' = IF USE_RUST_PRICING /\ c.op # "round_money" THEN "rust" ELSE "python"
    /\ UNCHANGED <<USE_RUST_PRICING, agreements, prices, now, result, requests,
                   python_runs, rust_outcome, sent, prev>>

\* The local body returns or raises `r`.
FinishPython(r) ==
    /\ result' = r
    /\ pc' = "returned"
    /\ python_runs' = python_runs + 1
    /\ UNCHANGED <<USE_RUST_PRICING, agreements, prices, now, call, requests,
                   rust_outcome, sent, prev>>

\* The delegation block letting the client's error out where it falls back.
FinishRustSurfacing(outcome, fall_back, r) ==
    /\ rust_outcome' = outcome
    /\ requests' = requests + 1
    /\ sent' = Payload(call)
    /\ pc' = "returned"
    /\ result' = IF fall_back THEN outcome ELSE r
    /\ UNCHANGED <<USE_RUST_PRICING, agreements, prices, now, call, python_runs, prev>>

\* The delegation block asking the service once more where it falls back.
FinishRustRetrying(outcome, fall_back, r) ==
    /\ rust_outcome' = outcome
    /\ requests' = requests + 1
    /\ sent' = Payload(call)
    /\ IF fall_back
       THEN pc' = (IF requests = 0 THEN "rust" ELSE "python") /\ UNCHANGED result
       ELSE pc' = "returned" /\ result' = r
    /\ UNCHANGED <<USE_RUST_PRICING, agreements, prices, now, call, python_runs, prev>>

\* The delegation block got `outcome` from the client: it returns `returned`,
\* raises `raised`, or (fall_back) goes on to the local body.
FinishRust(outcome, fall_back, r) ==
    /\ rust_outcome' = outcome
    /\ requests' = requests + 1
    /\ sent' = Payload(call)
    /\ IF fall_back
       THEN pc' = "python" /\ UNCHANGED result
       ELSE pc' = "returned" /\ result' = r
    /\ UNCHANGED <<USE_RUST_PRICING, agreements, prices, now, call, python_runs, prev>>

Call_round_money ==
    /\ pc = "idle"
    /\ \E amount \in RoundInputs, places \in Places :
        Enter([op |-> "round_money", amount |-> amount, places |-> places])

Python_round_money ==
    /\ pc = "python"
    /\ call.op = "round_money"
    /\ FinishPython([kind |-> "return", value |-> round_money(call.amount, call.places)])

Call_allocate_shared_costs ==
    /\ pc = "idle"
    /\ \E shared_total \in SharedTotals, diver_count \in DiverCounts,
          currency \in Currencies :
        Enter([op |-> "allocate_shared_costs", shared_total |-> shared_total,
               diver_count |-> diver_count, currency |-> currency])

\* calculators.py 443-455: both client errors fall through to the local body.
Rust_allocate_shared_costs ==
    /\ pc = "rust"
    /\ call.op = "allocate_shared_costs"
    /\ \E x \in HttpExchanges(AllocateBodies) :
        LET outcome == rust_client_allocate_shared_costs(x)
        IN  FinishRust(outcome,
                       outcome.kind = "raise"
                         /\ outcome.error \in {"RustPricingUnavailable", "RustPricingError"},
                       IF outcome.kind = "return"
                       THEN [kind |-> "return", per_diver |-> outcome.value.per_diver,
                             amounts |-> outcome.value.amounts]
                       ELSE outcome)

Python_allocate_shared_costs ==
    /\ pc = "python"
    /\ call.op = "allocate_shared_costs"
    /\ FinishPython(allocate_shared_costs_python(call.shared_total, call.diver_count))

Pricing(cost, charge) == [t |-> "dict", cost |-> cost, charge |-> charge]

GasTerms(gas_fills) == [boat_charter |-> [t |-> "absent"], gas_fills |-> gas_fills]

AirAt50 == Pricing(Num(5000 * Cent), Num(10000 * Cent))

\* terms["gas_fills"]: absent; air and ean32; the key in upper case; an empty
\* entry; entries with a malformed or absent cost or charge.
GasFills ==
    {[t |-> "absent"],
     [t |-> "dict", entries |-> [k \in {"air", "ean32"} |->
        IF k = "air" THEN AirAt50 ELSE Pricing(Num(8050 * Cent), Num(12000 * Cent))]],
     [t |-> "dict", entries |-> [k \in {"AIR"} |-> AirAt50]],
     [t |-> "dict", entries |-> [k \in {"air"} |-> [t |-> "empty"]]],
     [t |-> "dict", entries |-> [k \in {"air"} |-> Pricing(Text, Num(10000 * Cent))]],
     [t |-> "dict", entries |-> [k \in {"air"} |-> Pricing(Num(5000 * Cent), Text)]],
     [t |-> "dict", entries |-> [k \in {"air"} |-> Pricing(Absent, Absent)]],
     [t |-> "dict", entries |-> [k \in {"air"} |-> Pricing(Null, Null)]]}

\* The Agreement table: empty; one gas agreement of shop 1; one superseded at
\* time 1; only another shop's; only a boat agreement.
GasStores ==
    {{}}
    \cup {{Agreement(1, "gas_vendor_pricing", 0, 1, Always, GasTerms(g))} : g \in GasFills}
    \cup {{Agreement(1, "gas_vendor_pricing", 0, 1, UntilOne,
                     GasTerms([t |-> "dict", entries |-> [k \in {"air"} |-> AirAt50]])),
           Agreement(2, "gas_vendor_pricing", 0, 1, FromOne,
                     GasTerms([t |-> "dict", entries |-> [k \in {"air"} |->
                        Pricing(Num(6000 * Cent), Num(11000 * Cent))]]))}}
    \cup {{Agreement(1, "gas_vendor_pricing", 0, 2, Always,
                     GasTerms([t |-> "dict", entries |-> [k \in {"air"} |-> AirAt50]]))}}
    \cup {{Agreement(1, "vendor_pricing", 1, 1, Always, BoatTerms(GoodTier))}}

Call_calculate_gas_fills ==
    /\ pc = "idle"
    /\ \E dive_shop \in DiveShops, gas_type \in GasTypes, fills_count \in FillCounts,
          customer_charge_amount \in ChargeOverrides, as_of \in AsOfValues :
        Enter([op |-> "calculate_gas_fills", dive_shop |-> dive_shop,
               gas_type |-> gas_type, fills_count |-> fills_count,
               customer_charge_amount |-> customer_charge_amount, as_of |-> as_of])

\* calculators.py 228-248: what the delegation block of calculate_gas_fills makes
\* of the client's outcome.
gas_fills_delegation(outcome, dive_shop) ==
    IF outcome.kind = "return"
    THEN [kind |-> "return",
          cost_per_fill |-> outcome.value.cost_per_fill,
          charge_per_fill |-> outcome.value.charge_per_fill,
          total_cost |-> outcome.value.total_cost,
          total_charge |-> outcome.value.total_charge,
          fills_count |-> outcome.value.fills_count,
          gas_type |-> outcome.value.gas_type,
          agreement_id |-> outcome.value.agreement_id,
          price_rule_id |-> outcome.value.price_rule_id]
    ELSE IF outcome.error = "RustPricingError"
    THEN CASE outcome.error_type = "missing_vendor_agreement" ->
                MissingVendorAgreementError("gas_vendor_pricing", "Organization", dive_shop)
           [] outcome.error_type = "configuration_error" -> Raise("ConfigurationError")
           [] OTHER -> outcome
    ELSE outcome

Rust_calculate_gas_fills ==
    /\ pc = "rust"
    /\ call.op = "calculate_gas_fills"
    /\ \E x \in HttpExchanges(GasFillsBodies) :
        LET outcome == rust_client_calculate_gas_fills(x)
        IN  FinishRust(outcome,
                       outcome.kind = "raise" /\ outcome.error = "RustPricingUnavailable",
                       gas_fills_delegation(outcome, call.dive_shop))

Python_calculate_gas_fills ==
    /\ pc = "python"
    /\ call.op = "calculate_gas_fills"
    /\ FinishPython(calculate_gas_fills_python(agreements, now, call.dive_shop,
            call.gas_type, call.fills_count, call.customer_charge_amount, call.as_of))

Price(pk, catalog_item, organization, party, agreement, priority, window, amount, cost) ==
    [pk |-> pk, catalog_item |-> catalog_item, organization |-> organization,
     party |-> party, agreement |-> agreement, priority |-> priority,
     valid_from |-> window.valid_from, valid_to_null |-> window.valid_to_null,
     valid_to |-> window.valid_to, amount |-> amount, currency |-> "MXN",
     cost_amount |-> cost.amount, cost_currency |-> cost.currency,
     has_cost |-> cost.amount # Null]

NoCost == [amount |-> Null, currency |-> ""]

\* Prices of catalog item 1: global at 10.00; of organization 1 at 20.00; of
\* party 1 at 30.00; of agreement 1 at 40.00; global, of higher priority, from
\* time 1 on, at 11.00; global at 12.00, tied with the first; global from time
\* 1 on at 13.00; of organization 1, of higher priority, at 21.00. And a price
\* of catalog item 2.
PricePool ==
    {Price(1, 1, NoRef, NoRef, NoRef, 0, Always, 1000 * Cent, NoCost),
     Price(2, 1, 1, NoRef, NoRef, 0, Always, 2000 * Cent,
           [amount |-> Num(500 * Cent), currency |-> ""]),
     Price(3, 1, NoRef, 1, NoRef, 0, Always, 3000 * Cent,
           [amount |-> Num(600 * Cent), currency |-> "USD"]),
     Price(4, 1, 1, 1, 1, 0, Always, 4000 * Cent, NoCost),
     Price(5, 1, NoRef, NoRef, NoRef, 1, FromOne, 1100 * Cent, NoCost),
     Price(6, 1, NoRef, NoRef, NoRef, 0, Always, 1200 * Cent, NoCost),
     Price(7, 2, NoRef, NoRef, NoRef, 0, Always, 9900 * Cent, NoCost),
     Price(8, 1, NoRef, NoRef, NoRef, 0, FromOne, 1300 * Cent, NoCost),
     Price(9, 1, 1, NoRef, NoRef, 1, Always, 2100 * Cent, NoCost)}

\* Prices of catalog item 1 bound to another agreement, party or organization
\* than the ones a call passes, or to more than one of them, all of a priority
\* above the others'; with the global, organization and party prices above.
ScopedPricePool ==
    {Price(10, 1, NoRef, NoRef, 2, 5, Always, 5000 * Cent, NoCost),
     Price(11, 1, NoRef, 2, NoRef, 5, Always, 5100 * Cent, NoCost),
     Price(12, 1, 2, NoRef, NoRef, 5, Always, 5200 * Cent, NoCost),
     Price(13, 1, 1, 2, NoRef, 5, Always, 5300 * Cent, NoCost),
     Price(14, 1, NoRef, 1, 2, 5, Always, 5400 * Cent, NoCost),
     Price(15, 1, 2, 1, NoRef, 5, Always, 5500 * Cent, NoCost)}
    \cup {p \in PricePool : p.pk \in {1, 2, 3}}

\* The Price table: any rows of one of the two pools.
PriceStores == (SUBSET PricePool) \cup (SUBSET ScopedPricePool)

Call_resolve_component_pricing ==
    /\ pc = "idle"
    /\ \E catalog_item \in CatalogItems, dive_shop \in OptionalRefs,
          party \in OptionalRefs, agreement \in OptionalRefs, as_of \in AsOfValues :
        Enter([op |-> "resolve_component_pricing", catalog_item |-> catalog_item,
               dive_shop |-> dive_shop, party |-> party, agreement |-> agreement,
               as_of |-> as_of])

\* calculators.py 354-370: what the delegation block of
\* resolve_component_pricing makes of the client's outcome.
resolve_delegation(outcome, catalog_item) ==
    IF outcome.kind = "return"
    THEN [kind |-> "return",
          charge_amount |-> outcome.value.charge_amount,
          charge_currency |-> outcome.value.charge_currency,
          cost_amount |-> outcome.value.cost_amount,
          cost_currency |-> outcome.value.cost_currency,
          price_rule_id |-> Str(outcome.value.price_rule_id),
          has_cost |-> outcome.value.has_cost]
    ELSE IF outcome.error = "RustPricingError" /\ outcome.error_type = "missing_price"
    THEN MissingPriceError(catalog_item)
    ELSE outcome

Rust_resolve_component_pricing ==
    /\ pc = "rust"
    /\ call.op = "resolve_component_pricing"
    /\ \E x \in HttpExchanges(ResolveBodies) :
        LET outcome == rust_client_resolve_component_pricing(x)
        IN  FinishRust(outcome,
                       outcome.kind = "raise" /\ outcome.error = "RustPricingUnavailable",
                       resolve_delegation(outcome, call.catalog_item))

Python_resolve_component_pricing ==
    /\ pc = "python"
    /\ call.op = "resolve_component_pricing"
    /\ \E r \in resolve_component_pricing_python(prices, now, call.catalog_item,
                    call.dive_shop, call.party, call.agreement, call.as_of) :
        FinishPython(r)

Call_calculate_boat_cost ==
    /\ pc = "idle"
    /\ \E dive_site \in DiveSites, diver_count \in DiverCounts, as_of \in AsOfValues :
        Enter([op |-> "calculate_boat_cost", dive_site |-> dive_site,
               diver_count |-> diver_count, as_of |-> as_of])

\* calculators.py 98-118: what the delegation block of calculate_boat_cost makes
\* of the client's outcome.
boat_cost_delegation(outcome, dive_site) ==
    IF outcome.kind = "return"
    THEN [kind |-> "return",
          total |-> outcome.value.total,
          per_diver |-> outcome.value.per_diver,
          base_cost |-> outcome.value.base_cost,
          overage_count |-> outcome.value.overage_count,
          overage_per_diver |-> outcome.value.overage_per_diver,
          included_divers |-> outcome.value.included_divers,
          diver_count |-> outcome.value.diver_count,
          agreement_id |-> outcome.value.agreement_id]
    ELSE IF outcome.error = "RustPricingError"
    THEN CASE outcome.error_type = "missing_vendor_agreement" ->
                MissingVendorAgreementError("vendor_pricing", "DiveSite", dive_site)
           [] outcome.error_type = "configuration_error" ->
                Raise("ConfigurationError")
           [] OTHER -> outcome
    ELSE outcome

Rust_calculate_boat_cost ==
    /\ pc = "rust"
    /\ call.op = "calculate_boat_cost"
    /\ \E x \in HttpExchanges(BoatCostBodies) :
        LET outcome == rust_client_calculate_boat_cost(x)
        IN  FinishRust(outcome,
                       outcome.kind = "raise" /\ outcome.error = "RustPricingUnavailable",
                       boat_cost_delegation(outcome, call.dive_site))

Python_calculate_boat_cost ==
    /\ pc = "python"
    /\ call.op = "calculate_boat_cost"
    /\ FinishPython(calculate_boat_cost_python(agreements, now, call.dive_site,
                                               call.diver_count, call.as_of))

\* benchmark_pricing.py 162: the totals are computed in the script itself.
Call_calculate_totals_python ==
    /\ pc = "idle"
    /\ \E lines \in LineLists, diver_count \in DiverCounts, rentals \in RentalLists :
        call' = [op |-> "calculate_totals_python", lines |-> lines,
                 diver_count |-> diver_count, rentals |-> rentals]
    /\ pc' = "python"
    /\ UNCHANGED <<USE_RUST_PRICING, agreements, prices, now, result, requests,
                   python_runs, rust_outcome, sent, prev>>

Python_calculate_totals_python ==
    /\ pc = "python"
    /\ call.op = "calculate_totals_python"
    /\ FinishPython(calculate_totals_python(call.lines, call.diver_count, call.rentals))

\* rust_client.calculate_totals is called as it is: no calculator stands
\* before it and no flag is asked.
Call_rust_client_calculate_totals ==
    /\ pc = "idle"
    /\ \E lines \in ClientLineLists, diver_count \in {0, 4}, currency \in Currencies,
          equipment_rentals \in ClientRentalLists :
        call' = [op |-> "rust_client.calculate_totals", lines |-> lines,
                 diver_count |-> diver_count, currency |-> currency,
                 equipment_rentals |-> equipment_rentals]
    /\ pc' = "rust"
    /\ UNCHANGED <<USE_RUST_PRICING, agreements, prices, now, result, requests,
                   python_runs, rust_outcome, sent, prev>>

\* What the client returns or raises is what its caller gets.
Rust_calculate_totals ==
    /\ pc = "rust"
    /\ call.op = "rust_client.calculate_totals"
    /\ \E x \in HttpExchanges(TotalsBodies) :
        LET outcome == rust_client_calculate_totals(x, call.currency)
        IN  FinishRust(outcome, FALSE, outcome)

\* _handle_response is handed a response that has arrived.
Call_handle_response ==
    /\ pc = "idle"
    /\ \E response \in Responses :
        call' = [op |-> "_handle_response", response |-> response]
    /\ pc' = "rust"
    /\ UNCHANGED <<USE_RUST_PRICING, agreements, prices, now, result, requests,
                   python_runs, rust_outcome, sent, prev>>

Apply_handle_response ==
    /\ pc = "rust"
    /\ call.op = "_handle_response"
    /\ result' = _handle_response(call.response)
    /\ pc' = "returned"
    /\ UNCHANGED <<USE_RUST_PRICING, agreements, prices, now, call, requests,
                   python_runs, rust_outcome, sent, prev>>

\* The caller has the result; the next call starts from a clean slate.
Return ==
    /\ pc = "returned"
    /\ pc' = "idle"
    /\ call' = None
    /\ result' = None
    /\ rust_outcome' = None
    /\ requests' = 0
    /\ python_runs' = 0
    /\ sent' = None
    /\ prev' = None
    /\ UNCHANGED <<USE_RUST_PRICING, agreements, prices, now>>

\* The caller makes the call it has just made once more, with the same
\* arguments, at once or later; the first call and its outcome are kept.
Again ==
    /\ pc = "returned"
    /\ prev = None
    /\ prev' = [call |-> call, result |-> result, python_runs |-> python_runs]
    /\ \E t \in now..MaxTime : now' = t
    /\ pc' = IF USE_RUST_PRICING /\ call.op # "round_money" THEN "rust" ELSE "python"
    /\ result' = None
    /\ rust_outcome' = None
    /\ requests' = 0
    /\ python_runs' = 0
    /\ sent' = None
    /\ UNCHANGED <<USE_RUST_PRICING, agreements, prices, call>>

Tick ==
    /\ pc = "idle"
    /\ now < MaxTime
    /\ now' = now + 1
    /\ UNCHANGED <<USE_RUST_PRICING, agreements, prices, pc, call, result, requests,
                   python_runs, rust_outcome, sent, prev>>

InitCall ==
    /\ pc = "idle"
    /\ call = None
    /\ result = None
    /\ rust_outcome = None
    /\ requests = 0
    /\ python_runs = 0
    /\ sent = None
    /\ prev = None
    /\ now = 0

\* round_money has no delegation and reads no reference data.
InitRound ==
    /\ InitCall
    /\ USE_RUST_PRICING = FALSE
    /\ agreements = {}
    /\ prices = {}

NextRound == Call_round_money \/ Python_round_money \/ Return

SpecRound == InitRound /\ [][NextRound]_vars

InitAllocate ==
    /\ InitCall
    /\ USE_RUST_PRICING \in BOOLEAN
    /\ agreements = {}
    /\ prices = {}

NextAllocate ==
    \/ Call_allocate_shared_costs
    \/ Rust_allocate_shared_costs
    \/ Python_allocate_shared_costs
    \/ Return

SpecAllocate == InitAllocate /\ [][NextAllocate]_vars

InitBoat ==
    /\ InitCall
    /\ USE_RUST_PRICING \in BOOLEAN
    /\ agreements \in BoatStores
    /\ prices = {}

NextBoat ==
    \/ Call_calculate_boat_cost
    \/ Rust_calculate_boat_cost
    \/ Python_calculate_boat_cost
    \/ Return
    \/ Tick

SpecBoat == InitBoat /\ [][NextBoat]_vars

InitGas ==
    /\ InitCall
    /\ USE_RUST_PRICING \in BOOLEAN
    /\ agreements \in GasStores
    /\ prices = {}

NextGas ==
    \/ Call_calculate_gas_fills
    \/ Rust_calculate_gas_fills
    \/ Python_calculate_gas_fills
    \/ Return
    \/ Tick

SpecGas == InitGas /\ [][NextGas]_vars

InitResolve ==
    /\ InitCall
    /\ USE_RUST_PRICING \in BOOLEAN
    /\ agreements = {}
    /\ prices \in PriceStores

NextResolve ==
    \/ Call_resolve_component_pricing
    \/ Rust_resolve_component_pricing
    \/ Python_resolve_component_pricing
    \/ Return
    \/ Tick

SpecResolve == InitResolve /\ [][NextResolve]_vars

\* Reference data for all the calculators together: none; a boat agreement of
\* site 1, a gas agreement of shop 1 and two prices; the same from time 1 on
\* only; agreements whose terms do not parse.
ReferenceData ==
    {[agreements |-> {}, prices |-> {}],
     [agreements |-> {Agreement(1, "vendor_pricing", 1, 0, Always, BoatTerms(GoodTier)),
                      Agreement(2, "gas_vendor_pricing", 0, 1, Always,
                         GasTerms([t |-> "dict", entries |-> [k \in {"air"} |-> AirAt50]]))},
      prices |-> {p \in PricePool : p.pk \in {1, 3}}],
     [agreements |-> {Agreement(1, "vendor_pricing", 1, 0, FromOne, BoatTerms(GoodTier)),
                      Agreement(2, "gas_vendor_pricing", 0, 1, FromOne,
                         GasTerms([t |-> "dict", entries |-> [k \in {"air"} |-> AirAt50]]))},
      prices |-> {p \in PricePool : p.pk \in {5}}],
     [agreements |-> {Agreement(1, "vendor_pricing", 1, 0, Always,
                         BoatTerms(Tier(Text, Num(4), Num(150 * Cent)))),
                      Agreement(2, "gas_vendor_pricing", 0, 1, Always,
                         GasTerms([t |-> "dict", entries |-> [k \in {"air"} |->
                            Pricing(Text, Num(10000 * Cent))]]))},
      prices |-> {p \in PricePool : p.pk \in {2, 7}}]}

\* Every calculator, over the same reference data.
Init ==
    /\ InitCall
    /\ USE_RUST_PRICING \in BOOLEAN
    /\ \E data \in ReferenceData :
        /\ agreements = data.agreements
        /\ prices = data.prices

Next ==
    \/ Call_round_money
    \/ Python_round_money
    \/ Call_allocate_shared_costs
    \/ Rust_allocate_shared_costs
    \/ Python_allocate_shared_costs
    \/ Call_calculate_boat_cost
    \/ Rust_calculate_boat_cost
    \/ Python_calculate_boat_cost
    \/ Call_calculate_gas_fills
    \/ Rust_calculate_gas_fills
    \/ Python_calculate_gas_fills
    \/ Call_resolve_component_pricing
    \/ Rust_resolve_component_pricing
    \/ Python_resolve_component_pricing
    \/ Return
    \/ Tick

Spec == Init /\ [][Next]_vars

\* A call that has been entered runs on: the code is synchronous, the request
\* is bounded by settings.RUST_PRICING_TIMEOUT and the local bodies have no
\* loop that depends on anything but their arguments.
CallProceeds ==
    \/ Rust_allocate_shared_costs
    \/ Python_allocate_shared_costs
    \/ Rust_calculate_boat_cost
    \/ Python_calculate_boat_cost
    \/ Rust_calculate_gas_fills
    \/ Python_calculate_gas_fills
    \/ Rust_resolve_component_pricing
    \/ Python_resolve_component_pricing

\* The calculators that have a delegation block, with agreements and prices in
\* force for site 1 and shop 1 and none for site 2.
InitLive ==
    /\ Init
    /\ prices = {p \in PricePool : p.pk \in {1, 3}}

NextLive ==
    \/ Call_allocate_shared_costs
    \/ Rust_allocate_shared_costs
    \/ Python_allocate_shared_costs
    \/ Call_calculate_boat_cost
    \/ Rust_calculate_boat_cost
    \/ Python_calculate_boat_cost
    \/ Call_calculate_gas_fills
    \/ Rust_calculate_gas_fills
    \/ Python_calculate_gas_fills
    \/ Call_resolve_component_pricing
    \/ Rust_resolve_component_pricing
    \/ Python_resolve_component_pricing
    \/ Return
    \/ Tick

SpecLive == InitLive /\ [][NextLive]_vars /\ WF_vars(CallProceeds)

\* Every calculator and, called directly, the client's calculate_totals.
NextClient ==
    \/ Next
    \/ Call_rust_client_calculate_totals
    \/ Rust_calculate_totals

SpecClient == Init /\ [][NextClient]_vars

\* The totals, computed in the script or asked of the service, and the
\* handling of a response.
InitTotals ==
    /\ InitCall
    /\ USE_RUST_PRICING \in BOOLEAN
    /\ agreements = {}
    /\ prices = {}

NextTotals ==
    \/ Call_calculate_totals_python
    \/ Python_calculate_totals_python
    \/ Call_rust_client_calculate_totals
    \/ Rust_calculate_totals
    \/ Call_handle_response
    \/ Apply_handle_response
    \/ Return

SpecTotals == InitTotals /\ [][NextTotals]_vars

\* Every calculator computing locally, each call made once or twice.
InitTwice ==
    /\ Init
    /\ USE_RUST_PRICING = FALSE

NextTwice ==
    \/ Call_round_money
    \/ Python_round_money
    \/ Call_allocate_shared_costs
    \/ Python_allocate_shared_costs
    \/ Call_calculate_boat_cost
    \/ Python_calculate_boat_cost
    \/ Call_calculate_gas_fills
    \/ Python_calculate_gas_fills
    \/ Call_resolve_component_pricing
    \/ Python_resolve_component_pricing
    \/ Again
    \/ Return
    \/ Tick

SpecTwice == InitTwice /\ [][NextTwice]_vars

(* ------------------------------- claims ------------------------------- *)

\* The call `op` has returned from its local body.
ReturnedFromPython(op) ==
    /\ pc = "returned"
    /\ call.op = op
    /\ python_runs = 1

\* C1: the local allocate_shared_costs, given a shared_total in whole cents
\* (positive, zero or negative) and diver_count > 0, returns amounts whose sum
\* is shared_total exactly.
C1_SumIsSharedTotal ==
    (/\ ReturnedFromPython("allocate_shared_costs")
     /\ call.diver_count > 0
     /\ call.shared_total % Cent = 0)
    => /\ result.kind = "return"
       /\ SumSeq(result.amounts) = call.shared_total

\* 0.10 among 3 divers: 0.03 each and one cent over, all of it handed out.
C1_Witness ==
    /\ ReturnedFromPython("allocate_shared_costs")
    /\ call.diver_count = 3
    /\ call.shared_total = 10 * Cent
    /\ result.per_diver = 3 * Cent
    /\ SumSeq(result.amounts) = 10 * Cent

\* C2: the local allocate_shared_costs with diver_count > 0 returns exactly
\* diver_count amounts, and for some k the first k are per_diver plus the
\* increment (+0.01 for a positive remainder, -0.01 for a negative one) and all
\* the others are per_diver: the remainder lands on the lowest indexes first.
C2_RemainderOnLowestIndexes ==
    (/\ ReturnedFromPython("allocate_shared_costs")
     /\ call.diver_count > 0)
    => /\ result.kind = "return"
       /\ Len(result.amounts) = call.diver_count
       /\ LET remainder == call.shared_total - result.per_diver * call.diver_count
              increment == IF remainder > 0 THEN Cent ELSE -Cent
          IN  \E k \in 0..call.diver_count :
                /\ (remainder = 0 => k = 0)
                /\ \A i \in 1..call.diver_count :
                     result.amounts[i] =
                        IF i <= k THEN result.per_diver + increment
                        ELSE result.per_diver

\* -0.10 among 4 divers: -0.02 each (half-even) leaves -0.02, taken from the
\* first two.
C2_Witness ==
    /\ ReturnedFromPython("allocate_shared_costs")
    /\ call.diver_count = 4
    /\ call.shared_total = -10 * Cent
    /\ result.amounts = <<-3 * Cent, -3 * Cent, -2 * Cent, -2 * Cent>>

\* C3: the local allocate_shared_costs with diver_count <= 0 returns per_diver 0
\* and an empty list of amounts, whatever shared_total is, and raises nothing.
C3_NoDiversGivesZeroAndEmpty ==
    (/\ ReturnedFromPython("allocate_shared_costs")
     /\ call.diver_count <= 0)
    => /\ result.kind = "return"
       /\ result.per_diver = 0
       /\ result.amounts = <<>>

C3_Witness ==
    /\ ReturnedFromPython("allocate_shared_costs")
    /\ call.diver_count = -1
    /\ call.shared_total = 10 * Cent
    /\ result = [kind |-> "return", per_diver |-> 0, amounts |-> <<>>]

\* C4: round_money(amount, places) is a multiple of 10^-places no farther from
\* amount than half of 10^-places, and when amount is exactly midway between two
\* such multiples it is the one whose last kept digit is even; for positive and
\* negative amounts and every places >= 0.
C4_RoundHalfToEven ==
    ReturnedFromPython("round_money")
    => LET u == Unit(call.places)
           r == result.value
       IN  /\ r % u = 0
           /\ 2 * Abs(call.amount - r) <= u
           /\ (2 * Abs(call.amount - r) = u => (r \div u) % 2 = 0)

\* round_money(-2.5, 0) = -2
C4_Witness ==
    /\ ReturnedFromPython("round_money")
    /\ call.places = 0
    /\ call.amount = -5 * (Unit(0) \div 2)
    /\ result.value = -2 * Unit(0)

\* The moment the lookups of the current call look at.
CallCheckTime == IF call.as_of.given THEN call.as_of.t ELSE now

\* A vendor agreement of the called dive site is in force at that moment.
SiteHasAgreement ==
    \E a \in agreements :
        /\ a.scope_type = "vendor_pricing"
        /\ a.scope_ref = call.dive_site
        /\ a.valid_from <= CallCheckTime
        /\ (a.valid_to_null \/ CallCheckTime < a.valid_to)

\* C5: every BoatCostResult the local calculate_boat_cost returns has
\* overage_count = max(0, diver_count - included_divers) and
\* total = base_cost + overage_count * overage_per_diver, for the diver_count
\* it was called with and whatever included_divers the terms hold (negative and
\* zero too); with diver_count <= included_divers that is overage_count 0 and
\* total = base_cost.
C5_BoatTotalTiering ==
    (/\ ReturnedFromPython("calculate_boat_cost")
     /\ result.kind = "return")
    => /\ call.diver_count > 0
       /\ result.diver_count = call.diver_count
       /\ result.overage_count =
            IF result.diver_count - result.included_divers > 0
            THEN result.diver_count - result.included_divers ELSE 0
       /\ result.total =
            result.base_cost + result.overage_count * result.overage_per_diver
       /\ (result.diver_count <= result.included_divers
            => result.overage_count = 0 /\ result.total = result.base_cost)

\* Base 18.00 for 4 divers, 1.50 for each one more, 6 divers: 2 over, 21.00.
C5_Witness ==
    /\ ReturnedFromPython("calculate_boat_cost")
    /\ result.kind = "return"
    /\ call.diver_count = 6
    /\ result.included_divers = 4
    /\ result.base_cost = 1800 * Cent
    /\ result.overage_count = 2
    /\ result.total = 2100 * Cent

\* C6: per_diver of a BoatCostResult of the local calculate_boat_cost is
\* total / diver_count rounded once to 2 decimal places, half to even: a whole
\* number of cents no farther than half a cent from the exact quotient, and the
\* even cent when the quotient is midway.
C6_PerDiverIsHalfEvenShare ==
    (/\ ReturnedFromPython("calculate_boat_cost")
     /\ result.kind = "return")
    => LET t == result.total
           n == result.diver_count
           p == result.per_diver
       IN  /\ n > 0
           /\ p % Cent = 0
           /\ 2 * Abs(t - p * n) <= Cent * n
           /\ (2 * Abs(t - p * n) = Cent * n => (p \div Cent) % 2 = 0)

\* 10.01 between 2 divers is 5.005 each, midway: 5.00, the even cent.
C6_Witness ==
    /\ ReturnedFromPython("calculate_boat_cost")
    /\ result.kind = "return"
    /\ result.total = 1001 * Cent
    /\ result.diver_count = 2
    /\ result.per_diver = 500 * Cent

\* C7: calculate_boat_cost with diver_count <= 0 fails, in its local body, with
\* an error of the InvalidInput kind, a kind other than ConfigurationError.
C7_NonPositiveCountIsInvalidInput ==
    (/\ ReturnedFromPython("calculate_boat_cost")
     /\ call.diver_count <= 0)
    => /\ result.kind = "raise"
       /\ result.error = "InvalidInput"

\* C8 as stated: with no vendor agreement of the site in force at as_of, the
\* local body always raises MissingVendorAgreementError with scope_type
\* "vendor_pricing" and the site's scope_ref.
C8_MissingAgreementAlwaysReported ==
    (/\ ReturnedFromPython("calculate_boat_cost")
     /\ ~SiteHasAgreement)
    => result = MissingVendorAgreementError("vendor_pricing", "DiveSite", call.dive_site)

\* C8: with no vendor agreement of the site in force at as_of (or now, without
\* as_of) the local calculate_boat_cost never returns a result: called with
\* diver_count > 0 it raises MissingVendorAgreementError with scope_type
\* "vendor_pricing" and the site's scope_ref, and called with diver_count <= 0
\* it raises the ConfigurationError of the count check, which comes first. When
\* the remote back-end reports missing_vendor_agreement the same
\* MissingVendorAgreementError is raised, whatever the diver_count.
C8_MissingAgreementIsFatal ==
    /\ (/\ ReturnedFromPython("calculate_boat_cost")
        /\ ~SiteHasAgreement)
       => /\ result.kind = "raise"
          /\ call.diver_count > 0 =>
               result = MissingVendorAgreementError("vendor_pricing", "DiveSite",
                                                    call.dive_site)
          /\ call.diver_count <= 0 => result.error = "ConfigurationError"
    /\ (/\ pc = "returned"
        /\ call.op = "calculate_boat_cost"
        /\ python_runs = 0
        /\ rust_outcome = RustPricingError("missing_vendor_agreement"))
       => result = MissingVendorAgreementError("vendor_pricing", "DiveSite",
                                               call.dive_site)

\* The site has an agreement, but one that starts at time 1, and the price is
\* asked as of time 0.
C8_Witness ==
    /\ ReturnedFromPython("calculate_boat_cost")
    /\ call.diver_count > 0
    /\ call.as_of = [given |-> TRUE, t |-> 0]
    /\ \E a \in agreements : /\ a.scope_type = "vendor_pricing"
                             /\ a.scope_ref = call.dive_site
                             /\ a.valid_from = 1
    /\ ~SiteHasAgreement
    /\ result = MissingVendorAgreementError("vendor_pricing", "DiveSite", call.dive_site)

\* C9: when the applicable boat agreement has a boat_charter whose base_cost or
\* overage_per_diver is missing or is no number, the local calculate_boat_cost
\* raises ConfigurationError.
C9_BadTierFieldIsConfigurationError ==
    (/\ ReturnedFromPython("calculate_boat_cost")
     /\ call.diver_count > 0
     /\ SiteHasAgreement
     /\ LET boat_tier == FindBoatAgreement(agreements, call.dive_site,
                                           CallCheckTime).terms.boat_charter
        IN  /\ boat_tier.t = "dict"
            /\ \/ boat_tier.base_cost.t # "num"
               \/ boat_tier.overage_per_diver.t # "num")
    => /\ result.kind = "raise"
       /\ result.error = "ConfigurationError"

\* C10: every GasFillResult the local calculate_gas_fills returns has
\* total_cost = cost_per_fill * fills_count and
\* total_charge = charge_per_fill * fills_count exactly, nothing rounded, for
\* the fills_count > 0 it was called with.
C10_GasTotalsAreProducts ==
    (/\ ReturnedFromPython("calculate_gas_fills")
     /\ result.kind = "return")
    => /\ call.fills_count > 0
       /\ result.fills_count = call.fills_count
       /\ result.total_cost = result.cost_per_fill * result.fills_count
       /\ result.total_charge = result.charge_per_fill * result.fills_count

\* 50.00 a fill charged at 0.033: two fills cost 100.00 and are charged 0.066.
C10_Witness ==
    /\ ReturnedFromPython("calculate_gas_fills")
    /\ result.kind = "return"
    /\ call.fills_count = 2
    /\ call.customer_charge_amount = [given |-> TRUE, v |-> 33 * Unit(3)]
    /\ result.total_cost = 10000 * Cent
    /\ result.total_charge = 66 * Unit(3)

\* A gas agreement of the called shop is in force at CallCheckTime, and `a` is it.
ShopAgreement(a) ==
    /\ a \in agreements
    /\ a.scope_type = "gas_vendor_pricing"
    /\ a.party_a = call.dive_shop
    /\ a.valid_from <= CallCheckTime
    /\ (a.valid_to_null \/ CallCheckTime < a.valid_to)
    /\ \A b \in agreements :
         (/\ b.scope_type = "gas_vendor_pricing"
          /\ b.party_a = call.dive_shop
          /\ b.valid_from <= CallCheckTime
          /\ (b.valid_to_null \/ CallCheckTime < b.valid_to)) => a.pk <= b.pk

\* C11: the local calculate_gas_fills returns charge_per_fill equal to the
\* override whenever one is supplied, an override of exactly 0 included, and
\* equal to the agreement's charge for the gas type when none is supplied;
\* cost_per_fill and total_cost are the agreement's cost and its product with
\* fills_count either way. When the call is delegated, the override is posted
\* whenever one is supplied, 0 included, and left out otherwise.
C11_OverrideReplacesChargeOnly ==
    /\ (/\ ReturnedFromPython("calculate_gas_fills")
        /\ result.kind = "return")
       => \E a \in agreements :
            /\ ShopAgreement(a)
            /\ \E k \in DOMAIN a.terms.gas_fills.entries :
                /\ lower(k) = lower(call.gas_type)
                /\ LET entry == a.terms.gas_fills.entries[k]
                       cost == IF entry.cost.t = "num" THEN entry.cost.v ELSE 0
                   IN  /\ result.charge_per_fill =
                            IF call.customer_charge_amount.given
                            THEN call.customer_charge_amount.v
                            ELSE IF entry.charge.t = "num" THEN entry.charge.v ELSE 0
                       /\ result.cost_per_fill = cost
                       /\ result.total_cost = cost * call.fills_count
    /\ (/\ pc = "returned"
        /\ call.op = "calculate_gas_fills"
        /\ requests > 0)
       => sent.customer_charge_override =
            IF call.customer_charge_amount.given
            THEN [str |-> call.customer_charge_amount.v]
            ELSE [t |-> "absent"]

\* Air at cost 50.00 and charge 100.00, given away: override 0, two fills.
C11_Witness ==
    /\ ReturnedFromPython("calculate_gas_fills")
    /\ result.kind = "return"
    /\ call.customer_charge_amount = [given |-> TRUE, v |-> 0]
    /\ call.fills_count = 2
    /\ result.charge_per_fill = 0
    /\ result.total_charge = 0
    /\ result.cost_per_fill = 5000 * Cent
    /\ result.total_cost = 10000 * Cent

\* C12: whatever the letter case of gas_type and of the key stored in
\* terms.gas_fills, the local calculate_gas_fills selects the entry whose key is
\* the same gas type and returns its cost and charge.
C12_LookupIgnoresLetterCase ==
    \A a \in agreements :
        (/\ ReturnedFromPython("calculate_gas_fills")
         /\ call.fills_count > 0
         /\ \lnot call.customer_charge_amount.given
         /\ ShopAgreement(a)
         /\ a.terms.gas_fills.t = "dict")
        => \A k \in DOMAIN a.terms.gas_fills.entries :
             LET entry == a.terms.gas_fills.entries[k]
             IN  (/\ lower(k) = lower(call.gas_type)
                  /\ entry.t = "dict"
                  /\ entry.cost.t = "num"
                  /\ entry.charge.t = "num")
                 => /\ result.kind = "return"
                    /\ result.cost_per_fill = entry.cost.v
                    /\ result.charge_per_fill = entry.charge.v

\* A price of the called catalog item in force at CallCheckTime.
PriceApplies(p) ==
    /\ p \in prices
    /\ p.catalog_item = call.catalog_item
    /\ p.valid_from <= CallCheckTime
    /\ (p.valid_to_null \/ CallCheckTime < p.valid_to)

\* The four tiers of the current call, most specific first.
InAgreementTier(p) ==
    call.agreement.given /\ PriceApplies(p) /\ p.agreement = call.agreement.pk

InPartyTier(p) ==
    call.party.given /\ PriceApplies(p) /\ p.party = call.party.pk /\ p.agreement = 0

InOrganizationTier(p) ==
    /\ call.dive_shop.given
    /\ PriceApplies(p)
    /\ p.organization = call.dive_shop.pk
    /\ p.party = 0
    /\ p.agreement = 0

InGlobalTier(p) ==
    PriceApplies(p) /\ p.organization = 0 /\ p.party = 0 /\ p.agreement = 0

\* What resolve_component_pricing returns is made of the Price row p alone.
ResultIsPrice(p) ==
    /\ result.kind = "return"
    /\ result.price_rule_id = [str |-> p.pk]
    /\ result.charge_amount = p.amount
    /\ result.charge_currency = p.currency
    /\ result.cost_amount = p.cost_amount
    /\ result.cost_currency = IF p.cost_currency = "" THEN p.currency ELSE p.cost_currency
    /\ result.has_cost = p.has_cost

\* C13: what the local resolve_component_pricing returns is one Price row, of
\* the most specific tier that has a match, in the order agreement, party,
\* organization, global: a row of a lower tier only when no higher tier whose
\* argument was supplied has a match, and every field from that one row.
C13_MostSpecificTierWins ==
    (/\ ReturnedFromPython("resolve_component_pricing")
     /\ result.kind = "return")
    => \E p \in prices :
         /\ ResultIsPrice(p)
         /\ \/ InAgreementTier(p)
            \/ /\ \A q \in prices : ~InAgreementTier(q)
               /\ InPartyTier(p)
            \/ /\ \A q \in prices : ~InAgreementTier(q) /\ ~InPartyTier(q)
               /\ InOrganizationTier(p)
            \/ /\ \A q \in prices :
                    ~InAgreementTier(q) /\ ~InPartyTier(q) /\ ~InOrganizationTier(q)
               /\ InGlobalTier(p)

\* Prices of the party (30.00) and of the organization (20.00), both arguments
\* supplied and no agreement: the party's price.
C13_Witness ==
    /\ ReturnedFromPython("resolve_component_pricing")
    /\ call.party.given /\ call.dive_shop.given /\ ~call.agreement.given
    /\ \E p \in prices : InPartyTier(p)
    /\ \E p \in prices : InOrganizationTier(p)
    /\ result.kind = "return"
    /\ result.charge_amount = 3000 * Cent
    /\ result.price_rule_id = [str |-> 3]

\* C14: the local resolve_component_pricing raises MissingPriceError, with the
\* catalog item's identifier, exactly when no tier has a price in force at
\* as_of, and returns nothing then; and the remote back-end's missing_price
\* comes out as the same MissingPriceError.
C14_MissingPriceIffNoTierMatches ==
    /\ ReturnedFromPython("resolve_component_pricing")
       => LET no_match == \A p \in prices :
                  /\ ~InAgreementTier(p)
                  /\ ~InPartyTier(p)
                  /\ ~InOrganizationTier(p)
                  /\ ~InGlobalTier(p)
          IN  /\ no_match <=> result.kind = "raise"
              /\ result.kind = "raise" =>
                    /\ result.error = "MissingPriceError"
                    /\ result.catalog_item_id = [str |-> call.catalog_item]
    /\ (/\ pc = "returned"
        /\ call.op = "resolve_component_pricing"
        /\ python_runs = 0
        /\ rust_outcome.kind = "raise"
        /\ rust_outcome.error = "RustPricingError"
        /\ rust_outcome.error_type = "missing_price")
       => /\ result.kind = "raise"
          /\ result.error = "MissingPriceError"
          /\ result.catalog_item_id = [str |-> call.catalog_item]

\* The only price of the item starts at time 1 and the price is asked as of
\* time 0, with every context argument supplied.
C14_Witness ==
    /\ ReturnedFromPython("resolve_component_pricing")
    /\ \E p \in prices : p.catalog_item = call.catalog_item /\ p.valid_from = 1
    /\ call.as_of = [given |-> TRUE, t |-> 0]
    /\ call.party.given /\ call.dive_shop.given /\ call.agreement.given
    /\ result.kind = "raise"
    /\ result.error = "MissingPriceError"

\* What the local body of the called calculator may return or raise for the
\* arguments of the call, the reference data and the clock as they are.
LocalOutcomes ==
    CASE call.op = "allocate_shared_costs" ->
            {allocate_shared_costs_python(call.shared_total, call.diver_count)}
      [] call.op = "calculate_boat_cost" ->
            {calculate_boat_cost_python(agreements, now, call.dive_site,
                                        call.diver_count, call.as_of)}
      [] call.op = "calculate_gas_fills" ->
            {calculate_gas_fills_python(agreements, now, call.dive_shop, call.gas_type,
                call.fills_count, call.customer_charge_amount, call.as_of)}
      [] call.op = "resolve_component_pricing" ->
            resolve_component_pricing_python(prices, now, call.catalog_item,
                call.dive_shop, call.party, call.agreement, call.as_of)
      [] OTHER -> {}

\* The remote back-end was asked and could not be reached.
Unreachable ==
    /\ USE_RUST_PRICING
    /\ requests = 1
    /\ rust_outcome = [kind |-> "raise", error |-> "RustPricingUnavailable"]

\* C15: when USE_RUST_PRICING is set and the remote back-end cannot be reached,
\* boat cost, gas fills, resolve and allocate go on to the local body once the
\* request has failed, and return or raise what the local body does for the
\* same arguments; RustPricingUnavailable never reaches the caller.
C15_FallbackIsTransparent ==
    /\ (Unreachable /\ pc \in {"python", "returned"})
       => pc = "python" \/ python_runs = 1
    /\ (Unreachable /\ pc = "returned")
       => /\ result \in LocalOutcomes
          /\ ~(result.kind = "raise" /\ result.error = "RustPricingUnavailable")

\* The service is down and 18.00 + 2 * 1.50 for 6 divers comes back all the same.
C15_Witness ==
    /\ Unreachable
    /\ pc = "returned"
    /\ call.op = "calculate_boat_cost"
    /\ call.diver_count = 6
    /\ result.kind = "return"
    /\ result.total = 2100 * Cent

\* The remote back-end answered with a structured application error.
RemoteReported(error_types) ==
    /\ pc = "returned"
    /\ requests = 1
    /\ rust_outcome.kind = "raise"
    /\ rust_outcome.error = "RustPricingError"
    /\ rust_outcome.error_type \in error_types

\* C16: whichever structured application error the remote back-end reports
\* (missing vendor agreement, missing price, configuration error, invalid
\* input), boat cost, gas fills and resolve raise an error of the calculators'
\* own taxonomy, never the client's RustPricingError.
C16_RemoteErrorsAreTranslated ==
    (/\ RemoteReported({"missing_vendor_agreement", "missing_price",
                        "configuration_error", "invalid_input"})
     /\ call.op # "allocate_shared_costs")
    => /\ result.kind = "raise"
       /\ result.error \in {"MissingVendorAgreementError", "MissingPriceError",
                            "ConfigurationError", "InvalidInput"}

\* C17: a structured application error of the remote back-end always reaches
\* the caller as an error, for every calculator, and the local body is not run
\* in its place.
C17_RemoteErrorsAreNotSuppressed ==
    RemoteReported({"missing_vendor_agreement", "missing_price",
                    "configuration_error", "invalid_input"})
    => /\ result.kind = "raise"
       /\ python_runs = 0

\* C18: with USE_RUST_PRICING false no call sends a request to the remote
\* back-end or enters the delegation block, and what it returns or raises comes
\* from one run of the local body.
C18_FlagOffStaysLocal ==
    ~USE_RUST_PRICING
    => /\ requests = 0
       /\ sent = [kind |-> "None"]
       /\ rust_outcome = [kind |-> "None"]
       /\ pc # "rust"
       /\ pc = "returned"
            => /\ python_runs = 1
               /\ call.op # "round_money" => result \in LocalOutcomes

\* 0.10 among 3 divers with the flag off: computed here, nothing sent.
C18_Witness ==
    /\ ~USE_RUST_PRICING
    /\ pc = "returned"
    /\ call.op = "allocate_shared_costs"
    /\ call.shared_total = 10 * Cent
    /\ call.diver_count = 3
    /\ requests = 0
    /\ python_runs = 1
    /\ result.amounts = <<4 * Cent, 3 * Cent, 3 * Cent>>

\* An optional argument of the call as the request carries it.
Posted(ref) == IF ref.given THEN [str |-> ref.pk] ELSE [t |-> "absent"]

PostedAsOf == IF call.as_of.given THEN [iso |-> call.as_of.t] ELSE [t |-> "absent"]

\* The request carries the arguments of the call, each of them and unchanged.
SentTheArguments ==
    CASE call.op = "allocate_shared_costs" ->
            /\ sent.url = "/allocate"
            /\ sent.shared_total = [str |-> call.shared_total]
            /\ sent.diver_count = call.diver_count
            /\ sent.currency = call.currency
      [] call.op = "calculate_boat_cost" ->
            /\ sent.url = "/boat-cost"
            /\ sent.dive_site_id = [str |-> call.dive_site]
            /\ sent.diver_count = call.diver_count
            /\ sent.as_of = PostedAsOf
      [] call.op = "calculate_gas_fills" ->
            /\ sent.url = "/gas-fills"
            /\ sent.dive_shop_id = [str |-> call.dive_shop]
            /\ sent.gas_type = call.gas_type
            /\ sent.fills_count = call.fills_count
            /\ sent.customer_charge_override =
                 IF call.customer_charge_amount.given
                 THEN [str |-> call.customer_charge_amount.v] ELSE [t |-> "absent"]
            /\ sent.as_of = PostedAsOf
      [] call.op = "resolve_component_pricing" ->
            /\ sent.url = "/resolve"
            /\ sent.catalog_item_id = [str |-> call.catalog_item]
            /\ sent.dive_shop_id = Posted(call.dive_shop)
            /\ sent.party_id = Posted(call.party)
            /\ sent.agreement_id = Posted(call.agreement)
            /\ sent.as_of = PostedAsOf
      [] OTHER -> FALSE

\* The result holds the values of the remote's answer, field by field.
ReturnedTheRemoteValues ==
    LET remote == rust_outcome.value
    IN  /\ result.kind = "return"
        /\ CASE call.op = "allocate_shared_costs" ->
                    /\ result.per_diver = remote.per_diver
                    /\ result.amounts = remote.amounts
              [] call.op = "calculate_boat_cost" ->
                    /\ result.total = remote.total
                    /\ result.per_diver = remote.per_diver
                    /\ result.base_cost = remote.base_cost
                    /\ result.overage_count = remote.overage_count
                    /\ result.overage_per_diver = remote.overage_per_diver
                    /\ result.included_divers = remote.included_divers
                    /\ result.diver_count = remote.diver_count
                    /\ result.agreement_id = remote.agreement_id
              [] call.op = "calculate_gas_fills" ->
                    /\ result.cost_per_fill = remote.cost_per_fill
                    /\ result.charge_per_fill = remote.charge_per_fill
                    /\ result.total_cost = remote.total_cost
                    /\ result.total_charge = remote.total_charge
                    /\ result.fills_count = remote.fills_count
                    /\ result.gas_type = remote.gas_type
                    /\ result.agreement_id = remote.agreement_id
              [] call.op = "resolve_component_pricing" ->
                    /\ result.charge_amount = remote.charge_amount
                    /\ result.charge_currency = remote.charge_currency
                    /\ result.cost_amount = remote.cost_amount
                    /\ result.cost_currency = remote.cost_currency
                    /\ result.price_rule_id = [str |-> remote.price_rule_id]
                    /\ result.has_cost = remote.has_cost
              [] OTHER -> FALSE

\* C19: with USE_RUST_PRICING true and a successful answer of the remote
\* back-end, the calculator has sent exactly one request, carrying the caller's
\* arguments unchanged, returns the remote's values and has not run the local
\* body (so has looked up no reference data).
C19_DelegatesOnceWithTheArguments ==
    (/\ pc = "returned"
     /\ rust_outcome.kind = "return")
    => /\ USE_RUST_PRICING
       /\ requests = 1
       /\ python_runs = 0
       /\ SentTheArguments
       /\ ReturnedTheRemoteValues

\* 0.10 in USD among 3 divers, answered by the service.
C19_Witness ==
    /\ pc = "returned"
    /\ rust_outcome.kind = "return"
    /\ call.op = "allocate_shared_costs"
    /\ call.currency = "USD"
    /\ call.shared_total = 10 * Cent
    /\ sent.currency = "USD"
    /\ requests = 1
    /\ python_runs = 0
    /\ result.amounts = <<34 * Cent, 33 * Cent, 33 * Cent>>

\* C20: a calculator called twice with the same arguments over the same
\* reference data, computing locally both times, returns or raises the same
\* both times, however much time has passed and also when as_of is omitted.
C20_SameCallSameOutcome ==
    (/\ pc = "returned"
     /\ prev # [kind |-> "None"]
     /\ prev.python_runs = 1
     /\ python_runs = 1)
    => result = prev.result

\* Two prices in force for the current call that compete in one tier.
SameTier(p, q) ==
    \/ InAgreementTier(p) /\ InAgreementTier(q)
    \/ InPartyTier(p) /\ InPartyTier(q)
    \/ InOrganizationTier(p) /\ InOrganizationTier(q)
    \/ InGlobalTier(p) /\ InGlobalTier(q)

\* C21: the price the local resolve_component_pricing returns has the highest
\* priority of the prices in force in its tier and, among those of that
\* priority, the most recent valid_from; no price of the same tier in force at
\* as_of has a higher priority, or the same priority and a later valid_from.
C21_HighestPriorityThenMostRecent ==
    (/\ ReturnedFromPython("resolve_component_pricing")
     /\ result.kind = "return")
    => \E p \in prices :
         /\ ResultIsPrice(p)
         /\ \A q \in prices :
              SameTier(p, q) =>
                 \/ q.priority < p.priority
                 \/ q.priority = p.priority /\ q.valid_from <= p.valid_from

\* Asked as of time 1 with global prices of priority 0 since time 0 (10.00)
\* and since time 1 (13.00): the later one; and two organization prices of
\* priorities 0 and 1 exist as well, without a dive_shop supplied.
C21_Witness ==
    /\ ReturnedFromPython("resolve_component_pricing")
    /\ CallCheckTime = 1
    /\ ~call.agreement.given /\ ~call.party.given /\ ~call.dive_shop.given
    /\ {p.pk : p \in prices} = {1, 2, 8, 9}
    /\ result.kind = "return"
    /\ result.price_rule_id = [str |-> 8]
    /\ result.charge_amount = 1300 * Cent

\* C22: the price the local resolve_component_pricing returns is bound to
\* nothing the call did not supply. A price that has an agreement is returned
\* only for that agreement; a price of a party (party set, no agreement) only
\* for that party, never for another or an absent one; a price of an
\* organization (organization set, no party, no agreement) only for that
\* organization. So the party tier returns no price that has an agreement, the
\* organization tier none that has a party or an agreement, and the global
\* tier none that has any of the three.
C22_TierScopingIsExclusive ==
    (/\ ReturnedFromPython("resolve_component_pricing")
     /\ result.kind = "return")
    => \E p \in prices :
         /\ ResultIsPrice(p)
         /\ p.agreement # 0 =>
               call.agreement.given /\ p.agreement = call.agreement.pk
         /\ (p.agreement = 0 /\ p.party # 0) =>
               call.party.given /\ p.party = call.party.pk
         /\ (p.agreement = 0 /\ p.party = 0 /\ p.organization # 0) =>
               call.dive_shop.given /\ p.organization = call.dive_shop.pk
         /\ (~call.agreement.given /\ ~call.party.given /\ ~call.dive_shop.given) =>
               p.agreement = 0 /\ p.party = 0 /\ p.organization = 0

\* Party 1 and organization 1 are supplied, without an agreement; prices of a
\* higher priority exist for agreement 2, for party 2, for party 1 under
\* agreement 2 and for organization 2: the global price at 10.00 is returned.
C22_Witness ==
    /\ ReturnedFromPython("resolve_component_pricing")
    /\ call.party = [given |-> TRUE, pk |-> 1]
    /\ call.dive_shop = [given |-> TRUE, pk |-> 1]
    /\ ~call.agreement.given
    /\ {p.pk : p \in prices} = {1, 10, 11, 12, 13, 14}
    /\ result.kind = "return"
    /\ result.price_rule_id = [str |-> 1]
    /\ result.charge_amount = 1000 * Cent

\* C23: for the local allocate_shared_costs with shared_total in whole cents
\* and diver_count > 0, the remainder shared_total - per_diver * diver_count is
\* a whole number of cents smaller in magnitude than 0.01 * diver_count, so
\* adjustments_needed <= diver_count and min(adjustments_needed, diver_count)
\* drops none: exactly adjustments_needed amounts are adjusted, and every
\* amount is within 0.01 of per_diver.
C23_RemainderFitsTheDivers ==
    (/\ ReturnedFromPython("allocate_shared_costs")
     /\ call.diver_count > 0
     /\ call.shared_total % Cent = 0)
    => /\ result.kind = "return"
       /\ LET remainder == call.shared_total - result.per_diver * call.diver_count
              adjustments_needed == Abs(IntOfQuotient(remainder, Cent))
          IN  /\ remainder % Cent = 0
              /\ Abs(remainder) < Cent * call.diver_count
              /\ adjustments_needed <= call.diver_count
              /\ Cardinality({i \in 1..call.diver_count :
                                 result.amounts[i] # result.per_diver}) = adjustments_needed
              /\ \A i \in 1..call.diver_count :
                    Abs(result.amounts[i] - result.per_diver) <= Cent

\* 0.18 among 7 divers: 0.03 each allocates 0.21, the remainder is -0.03 and
\* three adjustments are needed, all made.
C23_Witness ==
    /\ ReturnedFromPython("allocate_shared_costs")
    /\ call.diver_count = 7
    /\ call.shared_total = 18 * Cent
    /\ result.per_diver = 3 * Cent
    /\ result.amounts = <<2 * Cent, 2 * Cent, 2 * Cent, 3 * Cent, 3 * Cent, 3 * Cent, 3 * Cent>>

\* C28: for the local allocate_shared_costs with diver_count > 0 and any
\* shared_total, one with more than 2 decimal places included, per_diver and
\* every returned amount are whole cents, and the sum of the amounts differs
\* from shared_total by strictly less than 0.01.
C28_SubCentTotalsStayWithinACent ==
    (/\ ReturnedFromPython("allocate_shared_costs")
     /\ call.diver_count > 0)
    => /\ result.kind = "return"
       /\ result.per_diver % Cent = 0
       /\ \A i \in 1..Len(result.amounts) : result.amounts[i] % Cent = 0
       /\ Abs(SumSeq(result.amounts) - call.shared_total) < Cent

\* 0.105 among 3 divers: 0.035 rounds to 0.04 each, 0.12 allocated, the
\* remainder -0.015 takes one cent from the first diver; the sum 0.11 is 0.005
\* above the total.
C28_Witness ==
    /\ ReturnedFromPython("allocate_shared_costs")
    /\ call.diver_count = 3
    /\ call.shared_total = 10 * Cent + 5 * Unit(3)
    /\ result.per_diver = 4 * Cent
    /\ result.amounts = <<3 * Cent, 4 * Cent, 4 * Cent>>
    /\ SumSeq(result.amounts) - call.shared_total = 5 * Unit(3)

\* C24: in the totals, shared_cost_per_diver is shared_cost / diver_count
\* rounded half-even to cents, and shared_charge_per_diver likewise, when
\* diver_count > 0; both are 0 when diver_count <= 0; and the two totals per
\* diver are the shared amount per diver plus the per-diver sum, nothing else
\* added or handed out.
C24_SharedPerDiverIsRoundedShare ==
    ReturnedFromPython("calculate_totals_python")
    => /\ result.kind = "return"
       /\ LET l == result.locals
              n == call.diver_count
          IN  /\ n > 0 =>
                    /\ l.shared_cost_per_diver = RoundHalfEven(l.shared_cost, n * Cent) * Cent
                    /\ l.shared_charge_per_diver = RoundHalfEven(l.shared_charge, n * Cent) * Cent
              /\ n <= 0 =>
                    /\ l.shared_cost_per_diver = 0
                    /\ l.shared_charge_per_diver = 0
              /\ result.total_cost_per_diver = l.shared_cost_per_diver + l.per_diver_cost
              /\ result.total_charge_per_diver = l.shared_charge_per_diver + l.per_diver_charge

\* A shared line of 0.10 / 0.25 among 4 divers is 0.02 / 0.06 each (0.025 goes
\* to the even cent); with a per-diver line of 0.33 / 0.50 and two rentals of
\* 0.50 / 1.00 the totals per diver are 1.35 and 2.56.
C24_Witness ==
    /\ ReturnedFromPython("calculate_totals_python")
    /\ call.lines = <<Line("shared", 10 * Cent, 25 * Cent), Line("per_diver", 33 * Cent, 50 * Cent)>>
    /\ call.rentals = <<Rental(50 * Cent, 100 * Cent, 2)>>
    /\ call.diver_count = 4
    /\ result.locals.shared_cost_per_diver = 2 * Cent
    /\ result.locals.shared_charge_per_diver = 6 * Cent
    /\ result.total_cost_per_diver = 135 * Cent
    /\ result.total_charge_per_diver = 256 * Cent

\* The sum of field over the lines whose allocation is `allocation`.
SumOfLines(allocation, field) ==
    SumSeq([i \in 1..Len(call.lines) |->
              IF call.lines[i].allocation = allocation THEN call.lines[i][field] ELSE 0])

\* The sum of field times quantity over the rentals.
SumOfRentals(field) ==
    SumSeq([i \in 1..Len(call.rentals) |->
              call.rentals[i][field] * call.rentals[i].quantity])

\* C25: in the totals every line adds its shop_cost and customer_charge to the
\* shared sums when its allocation is 'shared' and to the per-diver sums when
\* it is 'per_diver', and every rental adds unit_cost * quantity and
\* unit_charge * quantity to the per-diver sums only; so shared plus per-diver
\* is the sum of all the lines and all the rentals, for costs and for charges.
C25_EveryLineInOneAccumulator ==
    ReturnedFromPython("calculate_totals_python")
    => /\ result.kind = "return"
       /\ LET l == result.locals
          IN  /\ l.shared_cost = SumOfLines("shared", "shop_cost_amount")
              /\ l.shared_charge = SumOfLines("shared", "customer_charge_amount")
              /\ l.per_diver_cost = SumOfLines("per_diver", "shop_cost_amount")
                                      + SumOfRentals("unit_cost_amount")
              /\ l.per_diver_charge = SumOfLines("per_diver", "customer_charge_amount")
                                        + SumOfRentals("unit_charge_amount")
              /\ l.shared_cost + l.per_diver_cost =
                    SumSeq([i \in 1..Len(call.lines) |-> call.lines[i].shop_cost_amount])
                    + SumOfRentals("unit_cost_amount")
              /\ l.shared_charge + l.per_diver_charge =
                    SumSeq([i \in 1..Len(call.lines) |-> call.lines[i].customer_charge_amount])
                    + SumOfRentals("unit_charge_amount")

\* A shared line of 18.00 / 20.00, a per-diver line of 1.00 / 0 and two
\* rentals of 0.50 / 1.00: 18.00 / 20.00 shared and 2.00 / 2.00 per diver.
C25_Witness ==
    /\ ReturnedFromPython("calculate_totals_python")
    /\ call.lines = <<Line("shared", 1800 * Cent, 2000 * Cent), Line("per_diver", 100 * Cent, 0)>>
    /\ call.rentals = <<Rental(50 * Cent, 100 * Cent, 2)>>
    /\ result.locals.shared_cost = 1800 * Cent
    /\ result.locals.shared_charge = 2000 * Cent
    /\ result.locals.per_diver_cost = 200 * Cent
    /\ result.locals.per_diver_charge = 200 * Cent

\* C26: whenever a function of the remote client fails (calculate_boat_cost,
\* calculate_gas_fills, resolve_component_pricing, allocate_shared_costs or
\* calculate_totals), what it raises is RustPricingUnavailable or
\* RustPricingError and nothing else, also for a response that is not 200 and
\* whose body is not JSON.
C26_ClientRaisesOnlyItsTwoErrors ==
    (/\ requests = 1
     /\ rust_outcome.kind = "raise")
    => rust_outcome.error \in {"RustPricingUnavailable", "RustPricingError"}

\* C27: _handle_response returns the parsed body when the status is 200 and
\* raises for every other status: RustPricingError with the body's error_type
\* ('unknown' when the body has none) when the body is JSON, the HTTP status
\* error when it is not; for a status other than 200 it never returns.
C27_HandleResponseRaisesUnlessOk ==
    (/\ pc = "returned"
     /\ call.op = "_handle_response")
    => LET response == call.response
       IN  /\ (response.status = 200 /\ response.json) =>
                  result = [kind |-> "return", data |-> response.data]
           /\ response.status # 200 =>
                  /\ result.kind = "raise"
                  /\ response.json =>
                        /\ result.error = "RustPricingError"
                        /\ result.error_type =
                              IF response.error_type = "absent" THEN "unknown"
                              ELSE response.error_type
                  /\ ~response.json => result.error = "HTTPStatusError"

\* The count argument of a boat cost or gas fills call.
CallCount ==
    IF call.op = "calculate_boat_cost" THEN call.diver_count ELSE call.fills_count

\* C29: in calculate_boat_cost and calculate_gas_fills the check of the count
\* comes before the agreement lookup: a local body entered with a count <= 0
\* raises the count's error whatever agreements exist, never the missing
\* agreement's. With the remote back-end enabled the request comes first: the
\* local body, and so the count check, runs only after the client raised
\* RustPricingUnavailable, and what the remote returns is returned unchecked.
C29_CountCheckedBeforeLookup ==
    (/\ pc # "idle"
     /\ call.op \in {"calculate_boat_cost", "calculate_gas_fills"})
    => /\ (pc = "returned" /\ python_runs = 1 /\ CallCount <= 0)
          => result = [kind |-> "raise", error |-> "ConfigurationError"]
       /\ (USE_RUST_PRICING /\ pc \in {"python", "returned"})
          => /\ requests = 1
             /\ (pc = "python" \/ python_runs = 1)
                   => /\ rust_outcome.kind = "raise"
                      /\ rust_outcome.error = "RustPricingUnavailable"
             /\ (pc = "returned" /\ rust_outcome.kind = "return")
                   => python_runs = 0 /\ result.kind = "return"

\* The back-end is enabled and unreachable, dive site 2 has no agreement and
\* the boat cost is asked for 0 divers: the count's error, after one request.
C29_Witness ==
    /\ USE_RUST_PRICING
    /\ pc = "returned"
    /\ call.op = "calculate_boat_cost"
    /\ call.diver_count = 0
    /\ ~SiteHasAgreement
    /\ requests = 1
    /\ rust_outcome = [kind |-> "raise", error |-> "RustPricingUnavailable"]
    /\ python_runs = 1
    /\ result = [kind |-> "raise", error |-> "ConfigurationError"]

\* C30: a calculator call sends at most one request to the remote back-end
\* and runs its local body at most once; once the local body has been entered
\* the call never goes back to the remote; a call that found the back-end
\* unavailable has, when it returns, sent one request and run the local body
\* exactly once; and every call that was entered returns, with a result or an
\* error.
C30_OneRequestNoRetryAndTermination ==
    /\ [](/\ requests <= 1
          /\ python_runs <= 1
          /\ (pc = "returned" /\ Unreachable) => python_runs = 1
          /\ pc = "returned" => result.kind \in {"return", "raise"})
    /\ [][pc = "python" => pc' # "rust"]_vars
    /\ [][requests' # requests => (requests = 0 /\ requests' = 1) \/ requests' = 0]_vars
    /\ (pc \in {"rust", "python"}) ~> (pc = "returned")

\* The back-end is enabled and unreachable and 0.10 is split among 3 divers:
\* one request, then the local body once, and its result.
C30_Witness ==
    /\ USE_RUST_PRICING
    /\ pc = "returned"
    /\ call.op = "allocate_shared_costs"
    /\ call.shared_total = 10 * Cent
    /\ call.diver_count = 3
    /\ requests = 1
    /\ rust_outcome = [kind |-> "raise", error |-> "RustPricingUnavailable"]
    /\ python_runs = 1
    /\ result.kind = "return"
    /\ result.amounts = <<4 * Cent, 3 * Cent, 3 * Cent>>

====
